---- MODULE Spec2Model ----
(***************************************************************************)
(* Model of the analytical core of insight_tizaolai:                       *)
(*   src/src/signals.py  SignalEngine                                       *)
(*   src/src/judge.py    JudgmentEngine                                     *)
(*   src/src/scorer.py   MacroScorer                                        *)
(*                                                                         *)
(* Numbers are fixed-point integers.  Units used throughout:                *)
(*   net_liquidity            $B                                            *)
(*   sofr, hy_oas             basis points (the code holds percent, and     *)
(*                            divides its bps thresholds by 100)            *)
(*   vix, move_proxy          index points                                  *)
(*   usdjpy                   tenths of a yen                               *)
(*   carry_spread_bps         basis points                                  *)
(*   spx, btc                 index points                                  *)
(*   *_pct_Nd                 1e-4 (a return of -2% is -200)                *)
(*   *_zscore                 hundredths (z = 1.0 is 100)                   *)
(* A cell of a series is <<x>> (an observation) or <<>> (NaN); the same     *)
(* encoding is used for Python's Optional values (None is <<>>).            *)
(***************************************************************************)
EXTENDS Integers, Sequences, FiniteSets, TLC

VARIABLES
    panel,          \* the daily panel: [rows |-> n, cols |-> [name -> series]]
    signal_panel,   \* the signal table: [<<indicator, metric>> -> series]
    thresholds,     \* JudgmentEngine.thresholds = config["judgment"]
    data_quality,   \* JudgmentEngine.data_quality (set by evaluate)
    judgment,       \* the dict returned by the last evaluate, or NoJudgment
    score,          \* the dict returned by MacroScorer.compute, or NoScore
    forward,        \* the dict returned by ForwardAnalyzer.analyze, or NoForward
    calls,          \* the evaluate calls of concurrent callers on one engine
    pc              \* position of the pipeline run

vars == <<panel, signal_panel, thresholds, data_quality, judgment, score,
          forward, calls, pc>>

----------------------------------------------------------------------------
(* Values and small helpers                                                *)

NaN == <<>>
None == <<>>
Some(x) == <<x>>
Val(c) == c[1]
IsSome(c) == c # <<>>

EmptyMap == [x \in {} |-> 0]
NoJudgment == [regime |-> "NOT_EVALUATED"]
NoScore == [status |-> "not computed"]
NoForward == [status |-> "not computed"]
NoCalls == EmptyMap

\* dict.get(key, default)
Get(d, key, default) == IF key \in DOMAIN d THEN d[key] ELSE default

SeqRange(q) == {q[i] : i \in 1..Len(q)}

Max2(a, b) == IF a >= b THEN a ELSE b
Min2(a, b) == IF a <= b THEN a ELSE b

\* series.notna().any() / series.dropna().iloc[-1]
RECURSIVE LastNotNa(_)
LastNotNa(series) ==
    IF Len(series) = 0 THEN None
    ELSE IF IsSome(series[Len(series)]) THEN series[Len(series)]
    ELSE LastNotNa(SubSeq(series, 1, Len(series) - 1))

\* the cell of the last row only
last_row_only(frame, key) ==
    IF key \notin DOMAIN frame \/ Len(frame[key]) = 0 THEN None
    ELSE frame[key][Len(frame[key])]

\* JudgmentEngine._last_valid applied to frame.get(key) / frame[key]:
\* None for a missing column, else the last non-NaN cell, else None.
last_valid(frame, key) ==
    IF key \notin DOMAIN frame THEN None ELSE LastNotNa(frame[key])

----------------------------------------------------------------------------
(* SignalEngine                                                            *)

SIGNAL_INDICATORS ==
    <<"net_liquidity", "sofr", "hy_oas", "vix", "move_proxy",
      "usdjpy", "carry_spread_bps", "curve_slope_bps",
      "us2y", "us10y", "spx", "btc", "dxy">>
PriceLike == {"spx", "btc", "usdjpy", "dxy"}
tightening_up == {"sofr", "hy_oas", "vix", "move_proxy", "dxy"}
tightening_down == {"net_liquidity", "usdjpy", "carry_spread_bps", "spx", "btc"}

ZscoreWindow == 60
ZscoreMinPeriods == 20
PercentileWindow == 252
PercentileMinPeriods == 60
LabelStress == 150
LabelTight == 50

\* series.diff(w)
Diff(series, w) ==
    [t \in 1..Len(series) |->
        IF t > w /\ IsSome(series[t]) /\ IsSome(series[t - w])
        THEN Some(Val(series[t]) - Val(series[t - w])) ELSE NaN]

\* forward fill (pct_change pads missing cells before dividing)
Pad(series) == [t \in 1..Len(series) |-> LastNotNa(SubSeq(series, 1, t))]

\* series.pct_change(w), in units of 1e-4
PctChange(series, w) ==
    LET f == Pad(series)
    IN [t \in 1..Len(series) |->
          IF t > w /\ IsSome(f[t]) /\ IsSome(f[t - w]) /\ Val(f[t - w]) # 0
          THEN Some(((Val(f[t]) - Val(f[t - w])) * 10000) \div Val(f[t - w]))
          ELSE NaN]

\* the observations of the trailing window of `size` rows ending at row t
Window(series, t, size) ==
    SelectSeq(SubSeq(series, Max2(1, t - size + 1), t), IsSome)

RECURSIVE SumTo(_, _)
SumTo(q, k) == IF k = 0 THEN 0 ELSE q[k] + SumTo(q, k - 1)
SumSeq(q) == SumTo(q, Len(q))

\* the integer square root, by Newton's iteration from above
RECURSIVE NewtonSqrt(_, _)
NewtonSqrt(v, r) ==
    LET nr == (r + v \div r) \div 2 IN IF nr >= r THEN r ELSE NewtonSqrt(v, nr)
ISqrt(v) == IF v = 0 THEN 0 ELSE NewtonSqrt(v, Min2(v, 46340))

\* (x - rolling mean) / rolling std (sample std, ddof = 1) in hundredths,
\* for the observations obs of a window and the current value x.  Values
\* are centred on the window's first observation (mean and std are shift
\* invariant) to keep the sums small:
\*    z^2 = num^2 (c-1) / (c (c Q - S^2)),  num = c y - S
ZOfWindow(obs, x) ==
    LET c == Len(obs)
        y == [i \in 1..c |-> Val(obs[i]) - Val(obs[1])]
        S == SumSeq(y)
        Q == SumSeq([i \in 1..c |-> y[i] * y[i]])
        num == c * (x - Val(obs[1])) - S
        A == num * num * (c - 1)
        B == c * (c * Q - S * S)
        f == (B \div 100000) + 1
        A1 == A \div f
        B1 == Max2(1, B \div f)
        z2 == 10000 * (A1 \div B1) + (10000 * (A1 % B1)) \div B1
    IN IF B = 0 THEN NaN          \* rolling_std.replace(0, np.nan)
       ELSE Some((IF num < 0 THEN -1 ELSE 1) * ISqrt(z2))

\* a z-score from any two observations of the window
Zscore_any_sample(series) ==
    [t \in 1..Len(series) |->
        LET obs == Window(series, t, ZscoreWindow)
        IN IF Len(obs) < 2 \/ ~IsSome(series[t]) THEN NaN
           ELSE ZOfWindow(obs, Val(series[t]))]

Zscore(series) ==
    [t \in 1..Len(series) |->
        LET obs == Window(series, t, ZscoreWindow)
        IN IF Len(obs) < ZscoreMinPeriods \/ ~IsSome(series[t]) THEN NaN
           ELSE ZOfWindow(obs, Val(series[t]))]

\* a percentile ranked within the rows from the window's start to the end
\* of the series
Pctl_to_the_end(series) ==
    [t \in 1..Len(series) |->
        LET obs == SelectSeq(SubSeq(series, Max2(1, t - PercentileWindow + 1),
                                    Len(series)), IsSome)
            c == Len(obs)
        IN IF c < PercentileMinPeriods \/ ~IsSome(series[t]) THEN NaN
           ELSE LET x == Val(series[t])
                    less == Cardinality({i \in 1..c : Val(obs[i]) < x})
                    same == Cardinality({i \in 1..c : Val(obs[i]) = x})
                IN Some(((2 * less + same + 1) * 10000) \div (2 * c))]

\* rolling(...).apply(rank(pct=True).iloc[-1]) in units of 1e-4: the average
\* rank of the current value among the window's observations over their count
Pctl(series) ==
    [t \in 1..Len(series) |->
        LET obs == Window(series, t, PercentileWindow)
            c == Len(obs)
        IN IF c < PercentileMinPeriods \/ ~IsSome(series[t]) THEN NaN
           ELSE LET x == Val(series[t])
                    less == Cardinality({i \in 1..c : Val(obs[i]) < x})
                    same == Cardinality({i \in 1..c : Val(obs[i]) = x})
                IN Some(((2 * less + same + 1) * 10000) \div (2 * c))]

\* labels whose thresholds include the boundary
label_signal_inclusive(z, indicator) ==
    IF z = NaN THEN "NEUTRAL"
    ELSE LET s == IF indicator \in tightening_down THEN -Val(z) ELSE Val(z)
             a == IF indicator \in tightening_up \cup tightening_down THEN s
                  ELSE IF s < 0 THEN -s ELSE s
         IN IF a >= LabelStress THEN "STRESS"
            ELSE IF a >= LabelTight THEN "TIGHT"
            ELSE IF a <= -LabelTight THEN "EASING" ELSE "NEUTRAL"

\* SignalEngine._label_signal for one cell (z is NaN or a z-score)
label_signal(z, indicator) ==
    IF z = NaN THEN "NEUTRAL"
    ELSE IF indicator \in tightening_up
    THEN (IF Val(z) < -LabelTight THEN "EASING"
          ELSE IF Val(z) > LabelTight /\ Val(z) <= LabelStress THEN "TIGHT"
          ELSE IF Val(z) > LabelStress THEN "STRESS" ELSE "NEUTRAL")
    ELSE IF indicator \in tightening_down
    THEN (IF Val(z) > LabelTight THEN "EASING"
          ELSE IF Val(z) < -LabelTight /\ Val(z) >= -LabelStress THEN "TIGHT"
          ELSE IF Val(z) < -LabelStress THEN "STRESS" ELSE "NEUTRAL")
    ELSE LET a == IF Val(z) < 0 THEN -Val(z) ELSE Val(z)
         IN IF a > LabelTight /\ a <= LabelStress THEN "TIGHT"
            ELSE IF a > LabelStress THEN "STRESS" ELSE "NEUTRAL"

Metrics ==
    {"level", "chg_1d", "chg_5d", "chg_20d", "pct_1d", "pct_5d", "pct_20d",
     "zscore", "pctl", "signal"}
PctMetrics == {"pct_1d", "pct_5d", "pct_20d"}

\* the columns compute produces for the panel columns p
SignalColumns(p) ==
    {k \in {SIGNAL_INDICATORS[i] : i \in 1..Len(SIGNAL_INDICATORS)} \X Metrics :
        k[1] \in DOMAIN p /\ (k[2] \in PctMetrics => k[1] \in PriceLike)}

\* SignalEngine.compute with the default windows [1, 5, 20], 60 and 252
\* (pd.concat raises when no tracked indicator is a column of the panel;
\* the result is then no table at all)
compute(p) ==
    [k \in SignalColumns(p) |->
        LET series == p[k[1]]
        IN CASE k[2] = "level"   -> series
             [] k[2] = "chg_1d"  -> Diff(series, 1)
             [] k[2] = "chg_5d"  -> Diff(series, 5)
             [] k[2] = "chg_20d" -> Diff(series, 20)
             [] k[2] = "pct_1d"  -> PctChange(series, 1)
             [] k[2] = "pct_5d"  -> PctChange(series, 5)
             [] k[2] = "pct_20d" -> PctChange(series, 20)
             [] k[2] = "zscore"  -> Zscore(series)
             [] k[2] = "pctl"    -> Pctl(series)
             [] k[2] = "signal"  ->
                  LET z == Zscore(series)
                  IN [t \in 1..Len(series) |-> Some(label_signal(z[t], k[1]))]]

----------------------------------------------------------------------------
(* JudgmentEngine: thresholds (defaults of self.thresholds.get)            *)

DefaultNetLiqWeakThreshold5d == -50
DefaultSofrStressThreshold5d == 5
DefaultVixStressThreshold == 25
MoveZscoreStress == 100
DefaultUsdjpyStressThreshold5d == -20
DefaultCarrySpreadNarrowThreshold5d == -10
DefaultHyOasWidenThreshold5d == 15
DefaultSpxWeakThreshold5d == -200
DefaultMinConfirmations == 2
StaleDaysLimit == 3

----------------------------------------------------------------------------
(* JudgmentEngine: individual dimension checks.  p is the panel's column   *)
(* map, sig the signal table, th the thresholds.                           *)

check_net_liquidity_20d(p, sig, th) ==
    IF "net_liquidity" \notin DOMAIN p
    THEN [available |-> FALSE, weakening |-> FALSE, detail |-> "data missing",
          level |-> None, chg_5d |-> None, chg_20d |-> None]
    ELSE LET latest == LastNotNa(p["net_liquidity"])
             c5  == last_valid(sig, <<"net_liquidity", "chg_5d">>)
             c20 == last_valid(sig, <<"net_liquidity", "chg_20d">>)
             chg_5d  == IF IsSome(c5) THEN Val(c5) ELSE 0
             chg_20d == IF IsSome(c20) THEN Val(c20) ELSE 0
             threshold == Get(th, "net_liq_weak_threshold_5d",
                              DefaultNetLiqWeakThreshold5d)
         IN IF latest = None
            THEN [available |-> TRUE, weakening |-> FALSE, detail |-> "all NaN",
                  level |-> None, chg_5d |-> None, chg_20d |-> None]
            ELSE [available |-> TRUE, weakening |-> (chg_20d < threshold),
                  detail |-> "Level, 5d, 20d",
                  level |-> latest, chg_5d |-> Some(chg_5d),
                  chg_20d |-> Some(chg_20d)]

check_net_liquidity(p, sig, th) ==
    IF "net_liquidity" \notin DOMAIN p
    THEN [available |-> FALSE, weakening |-> FALSE, detail |-> "data missing",
          level |-> None, chg_5d |-> None, chg_20d |-> None]
    ELSE LET latest == LastNotNa(p["net_liquidity"])
             c5  == last_valid(sig, <<"net_liquidity", "chg_5d">>)
             c20 == last_valid(sig, <<"net_liquidity", "chg_20d">>)
             chg_5d  == IF IsSome(c5) THEN Val(c5) ELSE 0
             chg_20d == IF IsSome(c20) THEN Val(c20) ELSE 0
             threshold == Get(th, "net_liq_weak_threshold_5d",
                              DefaultNetLiqWeakThreshold5d)
         IN IF latest = None
            THEN [available |-> TRUE, weakening |-> FALSE, detail |-> "all NaN",
                  level |-> None, chg_5d |-> None, chg_20d |-> None]
            ELSE [available |-> TRUE, weakening |-> (chg_5d < threshold),
                  detail |-> "Level, 5d, 20d",
                  level |-> latest, chg_5d |-> Some(chg_5d),
                  chg_20d |-> Some(chg_20d)]

check_sofr(p, sig, th) ==
    IF "sofr" \notin DOMAIN p
    THEN [available |-> FALSE, stress |-> FALSE, detail |-> "data missing",
          level |-> None, chg_5d |-> None]
    ELSE LET latest == last_valid(p, "sofr")
             chg_5d == last_valid(sig, <<"sofr", "chg_5d">>)
             threshold == Get(th, "sofr_stress_threshold_5d",
                              DefaultSofrStressThreshold5d)
         IN IF latest = None
            THEN [available |-> TRUE, stress |-> FALSE, detail |-> "all NaN",
                  level |-> None, chg_5d |-> None]
            ELSE [available |-> TRUE,
                  stress |-> (chg_5d # None /\ Val(chg_5d) > threshold),
                  detail |-> "SOFR, 5d chg",
                  level |-> latest, chg_5d |-> chg_5d]

check_move_proxy(p, sig, th) ==
    LET col == IF "move_proxy" \in DOMAIN p THEN "move_proxy" ELSE "vix"
    IN IF col \notin DOMAIN p
       THEN [available |-> FALSE, stress |-> FALSE, detail |-> "data missing",
             col |-> col, level |-> None, zscore |-> None]
       ELSE LET latest == last_valid(p, col)
                threshold == Get(th, "vix_stress_threshold",
                                 DefaultVixStressThreshold)
                zscore == last_valid(sig, <<col, "zscore">>)
            IN IF latest = None
               THEN [available |-> TRUE, stress |-> FALSE, detail |-> "all NaN",
                     col |-> col, level |-> None, zscore |-> None]
               ELSE [available |-> TRUE,
                     stress |-> (Val(latest) > threshold
                                 \/ (zscore # None /\ Val(zscore) > MoveZscoreStress)),
                     detail |-> "level, z-score",
                     col |-> col, level |-> latest, zscore |-> zscore]

\* One sub-check of the carry chain: the text appended to sub_checks
\* ("N/A" when the level is None or 0, Python truthiness) and its flag.
CarrySubCheck(name, level, chg, threshold) ==
    LET st == (chg # None /\ Val(chg) < threshold)
    IN [name |-> name,
        shown |-> IF level = None \/ level = Some(0) THEN None ELSE level,
        stress |-> st]

check_carry_chain(p, sig, th) ==
    LET has_usdjpy == "usdjpy" \in DOMAIN p
        has_spread == "carry_spread_bps" \in DOMAIN p
        u == CarrySubCheck("USDJPY", last_valid(p, "usdjpy"),
                 last_valid(sig, <<"usdjpy", "chg_5d">>),
                 Get(th, "usdjpy_stress_threshold_5d",
                     DefaultUsdjpyStressThreshold5d))
        c == CarrySubCheck("US2Y-JP2Y", last_valid(p, "carry_spread_bps"),
                 last_valid(sig, <<"carry_spread_bps", "chg_5d">>),
                 Get(th, "carry_spread_narrow_threshold_5d",
                     DefaultCarrySpreadNarrowThreshold5d))
        sub_checks == (IF has_usdjpy THEN <<u>> ELSE <<>>)
                      \o (IF has_spread THEN <<c>> ELSE <<>>)
    IN IF ~has_usdjpy /\ ~has_spread
       THEN [available |-> FALSE, stress |-> FALSE, detail |-> <<>>]
       ELSE [available |-> TRUE,
             stress |-> \E i \in 1..Len(sub_checks) : sub_checks[i].stress,
             detail |-> sub_checks]

check_hy_oas(p, sig, th) ==
    IF "hy_oas" \notin DOMAIN p
    THEN [available |-> FALSE, stress |-> FALSE, detail |-> "data missing",
          level |-> None, chg_5d |-> None]
    ELSE LET latest == last_valid(p, "hy_oas")
             chg_5d == last_valid(sig, <<"hy_oas", "chg_5d">>)
             threshold_bps == Get(th, "hy_oas_widen_threshold_5d",
                                  DefaultHyOasWidenThreshold5d)
         IN IF latest = None
            THEN [available |-> TRUE, stress |-> FALSE, detail |-> "all NaN",
                  level |-> None, chg_5d |-> None]
            ELSE [available |-> TRUE,
                  stress |-> (chg_5d # None /\ Val(chg_5d) > threshold_bps),
                  detail |-> "HY OAS, 5d",
                  level |-> latest, chg_5d |-> chg_5d]

check_risk_assets(p, sig, th) ==
    IF "spx" \notin DOMAIN p
    THEN [available |-> FALSE, confirming_weakness |-> FALSE, detail |-> <<>>]
    ELSE LET spx_pct == last_valid(sig, <<"spx", "pct_5d">>)
             btc_pct == last_valid(sig, <<"btc", "pct_5d">>)
             threshold == Get(th, "spx_weak_threshold_5d",
                              DefaultSpxWeakThreshold5d)
             detail_parts ==
                 (IF spx_pct # None THEN <<[name |-> "SPX 5d", pct |-> spx_pct]>> ELSE <<>>)
                 \o (IF btc_pct # None THEN <<[name |-> "BTC 5d", pct |-> btc_pct]>> ELSE <<>>)
         IN [available |-> TRUE,
             confirming_weakness |-> (spx_pct # None /\ Val(spx_pct) < threshold),
             detail |-> detail_parts]

----------------------------------------------------------------------------
(* JudgmentEngine: staleness, rule engine, evaluate                        *)

\* A quality report is an ordered dict: a sequence of entries
\* [key, isdict, status, stale_days]; status and stale_days are Optional
\* (None when the entry has no such field).
is_stale_missing_only(info) ==
    info.isdict
    /\ (info.status = Some("missing")
        \/ (IF info.stale_days = None THEN 0 ELSE Val(info.stale_days)) > StaleDaysLimit)

\* the body of the loop of _check_staleness: is this entry appended?
is_stale(info) ==
    info.isdict
    /\ (info.status \in {Some("missing"), Some("degraded")}
        \/ (IF info.stale_days = None THEN 0 ELSE Val(info.stale_days)) > StaleDaysLimit)

RECURSIVE check_staleness(_)
check_staleness(dq) ==
    IF Len(dq) = 0 THEN <<>>
    ELSE LET info == dq[Len(dq)]
             rest == check_staleness(SubSeq(dq, 1, Len(dq) - 1))
         IN IF is_stale(info) THEN Append(rest, info.key) ELSE rest

confirmation_dims == <<"sofr", "move_proxy", "carry_chain", "hy_oas">>

\* [d for d in confirmation_dims if checks[d]["stress"]]
stress_names_of(checks) ==
    SelectSeq(confirmation_dims, LAMBDA d : checks[d].stress)

min_confirmations(th) == Get(th, "min_confirmations", DefaultMinConfirmations)

Clause(c, items) == [clause |-> c, items |-> items]

\* The explanation is the sequence of its clauses:
\*   NET_LIQ_WEAK        "净流动性走弱 (detail)"
\*   DIMS_CONFIRM        "且 N 个确认维度同步走弱 (names)"
\*   LEADING_UNCONFIRMED "但风险资产尚未确认——前置信号已出现，市场确认不足"
\*   CONFIRM_SHORT       "但确认信号不足 (count/min)"
\*   LOCAL_ONLY          "净流动性未显著走弱，但 names 出现压力信号——属于局部扰动"
\*   ALL_CALM            "净流动性与各确认维度均未触发走弱信号"
\*   STALE_NOTE          "[注意] Data stale/missing for: ..., 判断偏保守"

is_tightening_strict(weakening, stress_count, min_conf) ==
    weakening /\ stress_count > min_conf

\* Rule 1's condition
is_tightening(weakening, stress_count, min_conf) ==
    weakening /\ stress_count >= min_conf

is_local_disturbance_both(weakening, stress_count) ==
    stress_count > 0 /\ weakening

\* Rule 2's condition (the elif)
is_local_disturbance(weakening, stress_count) ==
    stress_count > 0 \/ weakening

tightening_rule_no_downgrade(stress_names, has_stale, confirming) ==
    [regime |-> "TIGHTENING",
     confidence |-> IF ~has_stale THEN "high" ELSE "medium",
     explanation |->
        <<Clause("NET_LIQ_WEAK", <<>>), Clause("DIMS_CONFIRM", stress_names)>>
        \o (IF ~confirming THEN <<Clause("LEADING_UNCONFIRMED", <<>>)>> ELSE <<>>)]

tightening_rule_drop_clause(stress_names, has_stale, confirming) ==
    LET c0 == IF ~has_stale THEN "high" ELSE "medium"
    IN [regime |-> "TIGHTENING",
        confidence |-> IF confirming THEN c0
                       ELSE IF c0 = "high" THEN "medium" ELSE "low",
        explanation |->
           <<Clause("NET_LIQ_WEAK", <<>>), Clause("DIMS_CONFIRM", stress_names)>>
           \o (IF ~confirming /\ ~has_stale
               THEN <<Clause("LEADING_UNCONFIRMED", <<>>)>> ELSE <<>>)]

\* Rule 1's branch, with rule 3 inside it
tightening_rule(stress_names, has_stale, confirming) ==
    LET c0 == IF ~has_stale THEN "high" ELSE "medium"
        e0 == <<Clause("NET_LIQ_WEAK", <<>>), Clause("DIMS_CONFIRM", stress_names)>>
    IN IF ~confirming
       THEN [regime |-> "TIGHTENING",
             confidence |-> IF c0 = "high" THEN "medium" ELSE "low",
             explanation |-> Append(e0, Clause("LEADING_UNCONFIRMED", <<>>))]
       ELSE [regime |-> "TIGHTENING", confidence |-> c0, explanation |-> e0]

\* Rule 2's branch
local_disturbance_rule(weakening, stress_names, has_stale) ==
    [regime |-> "LOCAL_DISTURBANCE",
     confidence |-> IF ~has_stale THEN "medium" ELSE "low",
     explanation |->
        IF weakening
        THEN <<Clause("NET_LIQ_WEAK", <<>>), Clause("CONFIRM_SHORT", <<>>)>>
        ELSE <<Clause("LOCAL_ONLY", stress_names)>>]

\* the else branch
stable_rule(has_stale) ==
    [regime |-> "STABLE",
     confidence |-> IF ~has_stale THEN "high" ELSE "medium",
     explanation |-> <<Clause("ALL_CALM", <<>>)>>]

\* the if / elif / else of _apply_rules: regime, confidence, explanation
rule_outcome(checks, stale, th) ==
    LET weakening == checks["net_liquidity"].weakening
        confirming == checks["risk_assets"].confirming_weakness
        stress_names == stress_names_of(checks)
        stress_count == Len(stress_names)
        has_stale == Len(stale) > 0
    IN IF is_tightening(weakening, stress_count, min_confirmations(th))
       THEN tightening_rule(stress_names, has_stale, confirming)
       ELSE IF is_local_disturbance(weakening, stress_count)
       THEN local_disturbance_rule(weakening, stress_names, has_stale)
       ELSE stable_rule(has_stale)

\* Rule 4 annotation and the returned dict
assemble(rule, checks, stale, today) ==
    LET has_stale == Len(stale) > 0
    IN [date |-> Some(today),
        regime |-> rule.regime,
        confidence |-> IF has_stale /\ rule.regime = "STABLE"
                       THEN "medium" ELSE rule.confidence,
        explanation |-> IF has_stale
                        THEN Append(rule.explanation, Clause("STALE_NOTE", stale))
                        ELSE rule.explanation,
        net_liquidity_weakening |-> checks["net_liquidity"].weakening,
        stress_count |-> Len(stress_names_of(checks)),
        stress_dimensions |-> stress_names_of(checks),
        risk_asset_confirming |-> checks["risk_assets"].confirming_weakness,
        data_stale |-> stale,
        dimension_details |-> checks]

apply_rules_demote_when_stale(checks, stale, today, th) ==
    LET r == rule_outcome(checks, stale, th)
    IN assemble(IF Len(stale) > 0 /\ r.regime = "TIGHTENING"
                THEN local_disturbance_rule(TRUE, stress_names_of(checks), TRUE)
                ELSE r,
                checks, stale, today)

apply_rules(checks, stale, today, th) ==
    assemble(rule_outcome(checks, stale, th), checks, stale, today)

empty_judgment(reason) ==
    [date |-> None,
     regime |-> "UNKNOWN",
     confidence |-> "none",
     explanation |-> <<Clause(reason, <<>>)>>,
     net_liquidity_weakening |-> FALSE,
     stress_count |-> 0,
     stress_dimensions |-> <<>>,
     risk_asset_confirming |-> FALSE,
     data_stale |-> <<>>,
     dimension_details |-> EmptyMap]

\* checks = {...} of evaluate, Step 2
dimension_checks(pn, sig, th) ==
    [d \in {"net_liquidity", "sofr", "move_proxy", "carry_chain", "hy_oas",
            "risk_assets"} |->
        CASE d = "net_liquidity" -> check_net_liquidity(pn.cols, sig, th)
          [] d = "sofr"          -> check_sofr(pn.cols, sig, th)
          [] d = "move_proxy"    -> check_move_proxy(pn.cols, sig, th)
          [] d = "carry_chain"   -> check_carry_chain(pn.cols, sig, th)
          [] d = "hy_oas"        -> check_hy_oas(pn.cols, sig, th)
          [] d = "risk_assets"   -> check_risk_assets(pn.cols, sig, th)]

evaluate_empty_by_columns(pn, sig, dq, th) ==
    IF DOMAIN pn.cols = {}
    THEN empty_judgment("No data available")
    ELSE apply_rules(dimension_checks(pn, sig, th), check_staleness(dq),
                     pn.rows, th)

\* a staleness check that reads the report stored on the engine
staleness_argument_from_engine(argument, stored) == stored

\* the report evaluate hands to _check_staleness (line 41): its own
\* data_quality argument, not self.data_quality, which line 37 has set
staleness_argument(argument, stored) == argument

\* JudgmentEngine.evaluate: the returned judgment
evaluate(pn, sig, dq, th) ==
    IF pn.rows = 0
    THEN empty_judgment("No data available")
    ELSE apply_rules(dimension_checks(pn, sig, th), check_staleness(dq),
                     pn.rows, th)

----------------------------------------------------------------------------
(* MacroScorer.  Scores are in thousandths of a point (100 points is       *)
(* 100000); the values the result reports are rounded to tenths.           *)

INDICATOR_ORDER ==
    <<"net_liquidity", "vix", "hy_oas", "sofr", "dxy", "carry_spread_bps",
      "curve_slope_bps", "on_rrp">>

\* INDICATOR_WEIGHTS, in hundredths
INDICATOR_WEIGHTS ==
    [net_liquidity |-> 25, vix |-> 15, hy_oas |-> 15, sofr |-> 10, dxy |-> 10,
     carry_spread_bps |-> 10, curve_slope_bps |-> 8, on_rrp |-> 7]

INDICATOR_DIRECTION ==
    [net_liquidity |-> 1, vix |-> -1, hy_oas |-> -1, sofr |-> -1, dxy |-> -1,
     carry_spread_bps |-> 1, curve_slope_bps |-> 1, on_rrp |-> -1]

MinObservations == 30
ScorerRollingWindow == 60
FullScore == 100000

\* max(0, min(100, x))
Clamp(x) == Max2(0, Min2(FullScore, x))

\* round(x, 1): thousandths to tenths
Round1(x) == (x + 50) \div 100

\* series.dropna(): the observations, as integers
DropNa(series) ==
    LET obs == SelectSeq(series, IsSome) IN [i \in 1..Len(obs) |-> Val(obs[i])]

\* (hist < x).sum() / len(hist) * 100
PercentBelow(hist, x) ==
    (Cardinality({i \in 1..Len(hist) : hist[i] < x}) * FullScore) \div Len(hist)

\* series.diff(w).dropna() of a series without missing values
DiffHist(xs, w) == [i \in 1..Max2(0, Len(xs) - w) |-> xs[i + w] - xs[i]]

\* 0.5 * (1 + erf(z / sqrt(2))) * 100 for z in hundredths: the normal CDF,
\* interpolated linearly between its values at multiples of 0.5
CdfKnots == <<50000, 69146, 84134, 93319, 97725, 99379, 99865, 99977, 99997>>
NormalCdf(z) ==
    LET a == IF z < 0 THEN -z ELSE z
        i == a \div 50
        upper == IF i >= 8 THEN FullScore
                 ELSE CdfKnots[i + 1]
                      + ((CdfKnots[i + 2] - CdfKnots[i + 1]) * (a % 50)) \div 50
    IN IF z < 0 THEN FullScore - upper ELSE upper

\* the z-score _score_indicator uses: the signal table's last valid one
\* (0 when the column is all NaN), else its own rolling(60) one (0 when
\* the window is not full or the std is not positive)
indicator_zscore(name, xs, sig) ==
    IF <<name, "zscore">> \in DOMAIN sig
    THEN LET z == LastNotNa(sig[<<name, "zscore">>])
         IN IF z = None THEN 0 ELSE Val(z)
    ELSE IF Len(xs) < ScorerRollingWindow THEN 0
    ELSE LET w == SubSeq(xs, Len(xs) - ScorerRollingWindow + 1, Len(xs))
             z == ZOfWindow([i \in 1..Len(w) |-> Some(w[i])], xs[Len(xs)])
         IN IF z = NaN THEN 0 ELSE Val(z)

signal_of_score(s) ==
    IF s >= 70000 THEN "BULLISH" ELSE IF s >= 55000 THEN "MILD_BULL"
    ELSE IF s >= 45000 THEN "NEUTRAL" ELSE IF s >= 30000 THEN "MILD_BEAR"
    ELSE "BEARISH"

\* The body of _score_indicator for a direction, the indicator's dropna()'d
\* series xs and the z-score z (hundredths)
indicator_score(direction, name, xs, z) ==
    LET n == Len(xs)
        current == xs[n]
        pctile == PercentBelow(xs, current)
        pctile_score == IF direction = 1 THEN pctile ELSE FullScore - pctile
        chg_5d == IF n > 5 THEN xs[n] - xs[n - 5] ELSE 0
        chg_20d == IF n > 20 THEN xs[n] - xs[n - 20] ELSE 0
        h5 == DiffHist(xs, 5)
        h20 == DiffHist(xs, 20)
        t5 == IF Len(h5) > 0 THEN PercentBelow(h5, chg_5d) ELSE 50000
        t20 == IF Len(h20) > 0 THEN PercentBelow(h20, chg_20d) ELSE 50000
        trend_score == IF direction = 1 THEN (t5 * 6 + t20 * 4) \div 10
                       ELSE ((FullScore - t5) * 6 + (FullScore - t20) * 4) \div 10
        z_cdf == NormalCdf(z)
        zscore_score == IF direction = 1 THEN z_cdf ELSE FullScore - z_cdf
        raw == (pctile_score * 40 + trend_score * 35 + zscore_score * 25) \div 100
        sc == Clamp(raw)
    IN [score |-> Round1(sc),
        signal |-> signal_of_score(sc),
        percentile |-> Round1(pctile),
        chg_5d |-> chg_5d,
        chg_20d |-> chg_20d,
        direction |-> direction,
        weight_pct |-> INDICATOR_WEIGHTS[name],
        pctile_score |-> Round1(pctile_score),
        trend_score |-> Round1(trend_score),
        zscore_score |-> Round1(zscore_score)]

\* MacroScorer._score_indicator
score_indicator(name, xs, sig) ==
    indicator_score(INDICATOR_DIRECTION[name], name, xs,
                    indicator_zscore(name, xs, sig))

get_tier_75(s) ==
    IF s >= 75000 THEN "STRONG_BULL" ELSE IF s >= 60000 THEN "BULL"
    ELSE IF s >= 40000 THEN "NEUTRAL" ELSE IF s >= 20000 THEN "BEAR"
    ELSE "STRONG_BEAR"

\* MacroScorer._get_tier
get_tier(s) ==
    IF s >= 80000 THEN "STRONG_BULL" ELSE IF s >= 60000 THEN "BULL"
    ELSE IF s >= 40000 THEN "NEUTRAL" ELSE IF s >= 20000 THEN "BEAR"
    ELSE "STRONG_BEAR"

\* the position of _generate_advice (激进做多, 偏多配置, 中性等待, 偏空防御,
\* 全面防御)
advice_position(s) ==
    IF s >= 80000 THEN "aggressive long" ELSE IF s >= 60000 THEN "lean long"
    ELSE IF s >= 40000 THEN "neutral wait" ELSE IF s >= 20000 THEN "lean defensive"
    ELSE "full defensive"

\* MacroScorer._asset_outlook: the three scores, in tenths
asset_outlook(composite) ==
    [btc |-> Round1(Max2(0, Min2(FullScore, (composite * 115) \div 100 - 7500))),
     spx |-> Round1(Clamp((composite * 90) \div 100 + 5000)),
     nasdaq |-> Round1(Clamp((composite * 105) \div 100 - 2500))]

qualifies_more_than_30(p, name) ==
    name \in DOMAIN p /\ Len(DropNa(p[name])) > MinObservations

\* the two `continue`s of compute's loop: is the indicator scored?
qualifies(p, name) ==
    name \in DOMAIN p /\ Len(DropNa(p[name])) >= MinObservations

\* min / max over scores.items() by score: the first one in dict order
first_with(scored, scores, best) ==
    LET i == CHOOSE i \in 1..Len(scored) :
                 /\ scores[scored[i]].score = best
                 /\ \A j \in 1..(i - 1) : scores[scored[j]].score # best
    IN scored[i]

total_weight_declared(scored) ==
    SumSeq([i \in 1..Len(INDICATOR_ORDER) |-> INDICATOR_WEIGHTS[INDICATOR_ORDER[i]]])

\* total_weight += weight, over the indicators the loop scored
total_weight(scored) ==
    SumSeq([i \in 1..Len(scored) |-> INDICATOR_WEIGHTS[scored[i]]])

\* weighted_sum += score_info["score"] * weight (the score is the rounded
\* one of the returned record), in thousandths times hundredths
weighted_sum(scored, scores) ==
    SumSeq([i \in 1..Len(scored) |->
               scores[scored[i]].score * 100 * INDICATOR_WEIGHTS[scored[i]]])

\* MacroScorer.compute.  panel.iloc[-1] raises IndexError on a panel with
\* no rows; min() / max() of _identify_key_risk / _identify_key_catalyst
\* raise ValueError when no indicator was scored.
MacroScorer_compute(pn, sig) ==
    LET scored == SelectSeq(INDICATOR_ORDER, LAMBDA nm : qualifies(pn.cols, nm))
        individual_scores ==
            [nm \in SeqRange(scored) |-> score_indicator(nm, DropNa(pn.cols[nm]), sig)]
        composite == Clamp(IF total_weight(scored) = 0 THEN 50000
                           ELSE weighted_sum(scored, individual_scores)
                                   \div total_weight(scored))
        all == {individual_scores[nm].score : nm \in SeqRange(scored)}
    IN IF pn.rows = 0 THEN [status |-> "raised", error |-> "IndexError"]
       ELSE IF Len(scored) = 0 THEN [status |-> "raised", error |-> "ValueError"]
       ELSE [status |-> "ok",
             composite_score |-> Round1(composite),
             tier |-> get_tier(composite),
             individual_scores |-> individual_scores,
             investment_advice |->
                [position |-> advice_position(composite),
                 key_risk |-> first_with(scored, individual_scores,
                                 CHOOSE m \in all : \A o \in all : m <= o),
                 key_catalyst |-> first_with(scored, individual_scores,
                                 CHOOSE m \in all : \A o \in all : m >= o)],
             risk_asset_outlook |-> asset_outlook(composite),
             weight_table |-> INDICATOR_WEIGHTS]

----------------------------------------------------------------------------
(* The pipeline step shared by the specifications below                    *)

\* a compute that pads the panel's missing cells in place before it builds
\* the table
ComputeSignals_in_place ==
    /\ pc \in {"ready", "signals"}
    /\ SignalColumns(panel.cols) # {}
    /\ panel' = [panel EXCEPT !.cols = [c \in DOMAIN panel.cols |-> Pad(panel.cols[c])]]
    /\ signal_panel' = compute(panel.cols)
    /\ pc' = "signals"
    /\ UNCHANGED <<thresholds, data_quality, judgment, score, forward, calls>>

\* SignalEngine.compute on the panel, for the first time or again: with no
\* tracked column all_series stays empty and pd.concat (line 63) raises
\* ValueError, so that no table is returned and the run ends there
ComputeSignals ==
    /\ pc \in {"ready", "signals"}
    /\ IF SignalColumns(panel.cols) = {}
       THEN pc' = "raised" /\ UNCHANGED signal_panel
       ELSE signal_panel' = compute(panel.cols) /\ pc' = "signals"
    /\ UNCHANGED <<panel, thresholds, data_quality, judgment, score, forward, calls>>

----------------------------------------------------------------------------
(* Specification of the scorer: a panel of 30 or 61 rows (or none) in      *)
(* which at most MaxPresent weighted indicators are columns, each with all *)
(* its rows observed or with 29 observations; the signal table is the one  *)
(* SignalEngine computes, or one without z-score columns.                  *)

MaxPresent == 2

\* row i of shape sh: rising, falling, flat, a 3-cycle, a late jump, a
\* 2-cycle that steps up for its last three rows, a 3-cycle that steps down
\* after its first three rows
ShapeValue(sh, i, n) ==
    CASE sh = 0 -> 100 + i
      [] sh = 1 -> 100 - i
      [] sh = 2 -> 100
      [] sh = 3 -> 100 + 4 * (i % 3)
      [] sh = 4 -> IF i < n THEN 100 + (i % 2) ELSE 140
      [] sh = 5 -> 100 + (i % 2) + (IF i > n - 3 THEN 3 ELSE 0)
      [] sh = 6 -> 100 + ((2 * i) % 3) - (IF i > 3 THEN 3 ELSE 0)

\* a column of n rows: every row observed, or only the last 29
ScorerColumn(sh, n, full) ==
    [i \in 1..n |-> IF full \/ i > n - 29 THEN Some(ShapeValue(sh, i, n)) ELSE NaN]

IndexOf(nm) == CHOOSE i \in 1..Len(INDICATOR_ORDER) : INDICATOR_ORDER[i] = nm

InitScorer ==
    /\ \E n \in {0, 30, 61}, sh \in 0..6 :
       \E present \in {q \in SUBSET SeqRange(INDICATOR_ORDER) :
                          Cardinality(q) <= MaxPresent} :
       \E full \in SUBSET present :
          panel = [rows |-> n,
                   cols |-> [nm \in present |->
                               ScorerColumn((sh + IndexOf(nm)) % 7, n, nm \in full)]]
    /\ signal_panel = EmptyMap
    /\ thresholds = EmptyMap
    /\ data_quality = <<>>
    /\ judgment = NoJudgment
    /\ score = NoScore
    /\ forward = NoForward
    /\ calls = NoCalls
    /\ pc = "ready"

Score ==
    /\ pc \in {"ready", "signals"}
    /\ score' = MacroScorer_compute(panel, signal_panel)
    /\ pc' = "scored"
    /\ UNCHANGED <<panel, signal_panel, thresholds, data_quality, judgment, forward,
                   calls>>

NextScorer == ComputeSignals \/ Score

SpecScorer == InitScorer /\ [][NextScorer]_vars

----------------------------------------------------------------------------
(* Inputs of the judgment specification                                    *)

MaxRows == 2

\* A column of n rows holding v, its last k rows missing.
Shape(n, k, v) == [i \in 1..n |-> IF i <= n - k THEN Some(v) ELSE NaN]
AllNaN(n) == [i \in 1..n |-> NaN]

P1(name, series) == name :> series
S1(ind, metric, series) == <<ind, metric>> :> series
In(pcols, scols) == [p |-> pcols, s |-> scols]

NetLiquidityInputs(n, k) ==
    { In(EmptyMap, S1("net_liquidity", "chg_5d", Shape(n, k, -100))),
      In(P1("net_liquidity", AllNaN(n)),
         S1("net_liquidity", "chg_5d", Shape(n, k, -100))),
      In(P1("net_liquidity", Shape(n, k, 6000)), EmptyMap),
      In(P1("net_liquidity", Shape(n, k, 6000)),
         S1("net_liquidity", "chg_5d", Shape(n, k, -50))),
      In(P1("net_liquidity", Shape(n, k, 6000)),
         S1("net_liquidity", "chg_5d", Shape(n, k, -100))
         @@ S1("net_liquidity", "chg_20d", Shape(n, k, -200))) }

SofrInputs(n, k) ==
    { In(EmptyMap, EmptyMap),
      In(P1("sofr", Shape(n, k, 530)), EmptyMap),
      In(P1("sofr", Shape(n, k, 530)), S1("sofr", "chg_5d", Shape(n, k, 5))),
      In(P1("sofr", Shape(n, k, 530)), S1("sofr", "chg_5d", Shape(n, k, 6))) }

MoveProxyInputs(n, k) ==
    { In(EmptyMap, EmptyMap),
      In(P1("vix", Shape(n, k, 26)), EmptyMap),
      In(P1("vix", Shape(n, k, 25)), S1("vix", "zscore", Shape(n, k, 100))),
      In(P1("vix", Shape(n, k, 20)), S1("vix", "zscore", Shape(n, k, 101))),
      In(P1("move_proxy", Shape(n, k, 20)) @@ P1("vix", Shape(n, k, 30)),
         S1("vix", "zscore", Shape(n, k, 200))) }

CarryChainInputs(n, k) ==
    { In(EmptyMap, EmptyMap),
      In(P1("usdjpy", Shape(n, k, 1500)),
         S1("usdjpy", "chg_5d", Shape(n, k, -20))),
      In(P1("usdjpy", Shape(n, k, 1500)),
         S1("usdjpy", "chg_5d", Shape(n, k, -21))),
      In(P1("usdjpy", Shape(n, k, 0)) @@ P1("carry_spread_bps", Shape(n, k, 300)),
         S1("usdjpy", "chg_5d", Shape(n, k, -20))
         @@ S1("carry_spread_bps", "chg_5d", Shape(n, k, -11))),
      In(P1("carry_spread_bps", Shape(n, k, 300)),
         S1("carry_spread_bps", "chg_5d", Shape(n, k, -10))) }

HyOasInputs(n, k) ==
    { In(EmptyMap, S1("hy_oas", "chg_5d", Shape(n, k, 16))),
      In(P1("hy_oas", Shape(n, k, 340)), S1("hy_oas", "chg_5d", Shape(n, k, 15))),
      In(P1("hy_oas", Shape(n, k, 340)), S1("hy_oas", "chg_5d", Shape(n, k, 16))) }

RiskAssetInputs(n, k) ==
    { In(EmptyMap, S1("spx", "pct_5d", Shape(n, k, -300))),
      In(P1("spx", Shape(n, k, 5000)),
         S1("spx", "pct_5d", Shape(n, k, -200))
         @@ S1("btc", "pct_5d", Shape(n, k, -500))),
      In(P1("spx", Shape(n, k, 5000)), S1("spx", "pct_5d", Shape(n, k, -201))) }

\* config["judgment"]: nothing configured, or one key overridden
Configs ==
    { EmptyMap,
      "min_confirmations" :> 1,
      "min_confirmations" :> 3,
      "net_liq_weak_threshold_5d" :> -100 }

Entry(key, isdict, status, stale_days) ==
    [key |-> key, isdict |-> isdict, status |-> status, stale_days |-> stale_days]

\* data_quality as the cleaner builds it (status, stale_days), plus entries
\* without fields and an entry that is no dict.
QualityReports ==
    { <<>>,
      <<Entry("sofr", TRUE, Some("ok"), Some(3)),
        Entry("vix", TRUE, None, None), Entry("spx", FALSE, None, None)>>,
      <<Entry("hy_oas", TRUE, Some("missing"), None)>>,
      <<Entry("sofr", TRUE, Some("ok"), Some(0)),
        Entry("hy_oas", TRUE, Some("degraded"), Some(0))>>,
      <<Entry("vix", TRUE, Some("ok"), Some(4)),
        Entry("sofr", TRUE, Some("ok"), Some(0)),
        Entry("net_liquidity", TRUE, Some("missing"), None)>> }

TypeOK ==
    /\ panel.rows \in Nat
    /\ pc \in {"ready", "signals", "raised", "judged", "scored", "analyzed",
              "returns", "signal"}

----------------------------------------------------------------------------
(* Specification of the judgment engine: the inputs are drawn at Init,     *)
(* evaluate is called with any quality report, any number of times.        *)

Init ==
    /\ \E n \in {0, MaxRows} :
       \E k \in {j \in 0..MaxRows : j < n \/ j = 0} :
       \E nl \in NetLiquidityInputs(n, k), so \in SofrInputs(n, k),
          mv \in MoveProxyInputs(n, k), cc \in CarryChainInputs(n, k),
          hy \in HyOasInputs(n, k), ra \in RiskAssetInputs(n, k) :
          /\ panel = [rows |-> n,
                      cols |-> nl.p @@ so.p @@ mv.p @@ cc.p @@ hy.p @@ ra.p]
          /\ signal_panel = nl.s @@ so.s @@ mv.s @@ cc.s @@ hy.s @@ ra.s
    /\ thresholds \in Configs
    /\ data_quality = <<>>
    /\ judgment = NoJudgment
    /\ score = NoScore
    /\ forward = NoForward
    /\ calls = NoCalls
    /\ pc = "ready"

Evaluate(dq) ==
    /\ data_quality' = dq
    /\ judgment' = evaluate(panel, signal_panel, dq, thresholds)
    /\ pc' = "judged"
    /\ UNCHANGED <<panel, signal_panel, thresholds, score, forward, calls>>

Next == \E dq \in QualityReports : Evaluate(dq)

Spec == Init /\ [][Next]_vars

----------------------------------------------------------------------------
(* Specification of the pipeline on the tightening scenario:               *)
(* SignalEngine.compute, then JudgmentEngine.evaluate, default thresholds. *)
(* The panel has 21 rows (day 0 to day 20).  net_liquidity falls from 6800 *)
(* to 6600 and hy_oas widens from 280bp to 340bp, each at one pace for 15  *)
(* days and another for the last 5; sofr rises 15bp over 5 days.           *)

\* 21 rows from `start`: 15 steps of a, then 5 steps of b
Ramp(start, a, b) ==
    [i \in 1..21 |->
        Some(IF i <= 16 THEN start + a * (i - 1)
             ELSE start + 15 * a + b * (i - 16))]

NetLiquidityPaths == {Ramp(6800, -10, -10), Ramp(6800, -9, -13), Ramp(6800, -11, -7)}
HyOasPaths == {Ramp(280, 3, 3), Ramp(280, 2, 6), Ramp(280, 1, 9)}
SofrPaths == {Ramp(530, 0, 3), Ramp(485, 3, 3)}
SpxPaths == {Ramp(5000, 0, 0), Ramp(5000, 0, -20), Ramp(5000, 0, -30)}
VixPaths == {Ramp(15, 0, 0)}

OptionalColumn(name, paths) == {EmptyMap} \cup {P1(name, s) : s \in paths}

\* quality reports with no stale data
FreshReports ==
    { <<>>,
      <<Entry("net_liquidity", TRUE, Some("ok"), Some(0)),
        Entry("hy_oas", TRUE, Some("ok"), Some(3)),
        Entry("sofr", TRUE, Some("ok"), Some(1))>> }

InitE2E ==
    /\ \E nl \in NetLiquidityPaths, hy \in HyOasPaths, so \in SofrPaths,
          sp \in OptionalColumn("spx", SpxPaths),
          vx \in OptionalColumn("vix", VixPaths) :
          panel = [rows |-> 21,
                   cols |-> P1("net_liquidity", nl) @@ P1("hy_oas", hy)
                            @@ P1("sofr", so) @@ sp @@ vx]
    /\ signal_panel = EmptyMap
    /\ thresholds = EmptyMap
    /\ data_quality = <<>>
    /\ judgment = NoJudgment
    /\ score = NoScore
    /\ forward = NoForward
    /\ calls = NoCalls
    /\ pc = "ready"

EvaluateSignals == pc = "signals" /\ \E dq \in FreshReports : Evaluate(dq)

NextE2E == ComputeSignals \/ EvaluateSignals

SpecE2E == InitE2E /\ [][NextE2E]_vars

----------------------------------------------------------------------------
(* Properties of the judgment engine (specification Spec)                  *)

Judged == pc = "judged"
NonEmptyPanel == panel.rows > 0
Regimes == {"TIGHTENING", "LOCAL_DISTURBANCE", "STABLE", "UNKNOWN"}

\* an entry of the quality report that the staleness rule is about
Qualifies(e) ==
    /\ e.isdict
    /\ \/ e.status = Some("missing")
       \/ e.status = Some("degraded")
       \/ (e.stale_days # None /\ Val(e.stale_days) > 3)
QualifyingKeys(dq) == {dq[i].key : i \in {j \in 1..Len(dq) : Qualifies(dq[j])}}
HasClause(j, c) == \E i \in 1..Len(j.explanation) : j.explanation[i].clause = c

\* the dimensions as the inputs show them
NetLiqDetail == judgment.dimension_details["net_liquidity"]
NetLiqThreshold == Get(thresholds, "net_liq_weak_threshold_5d", -50)
StressedDims == {d \in SeqRange(confirmation_dims) : judgment.dimension_details[d].stress}
SpxReturn5d == last_valid(signal_panel, <<"spx", "pct_5d">>)
RiskConfirmsWeakness ==
    /\ "spx" \in DOMAIN panel.cols
    /\ SpxReturn5d # None
    /\ Val(SpxReturn5d) < Get(thresholds, "spx_weak_threshold_5d", -200)

\* C1: on a non-empty panel the regime is TIGHTENING iff net liquidity is
\* weakening (5-day change strictly below the threshold) and at least
\* min_confirmations of the four confirmation dimensions are stressed; a
\* 5-day change of -100 with three stressed dimensions gives TIGHTENING.
C1_TighteningIff ==
    (Judged /\ NonEmptyPanel) =>
        /\ (judgment.regime = "TIGHTENING")
             <=> (judgment.net_liquidity_weakening
                  /\ Cardinality(StressedDims) >= min_confirmations(thresholds))
        /\ judgment.stress_count = Cardinality(StressedDims)
        /\ judgment.net_liquidity_weakening
             <=> (NetLiqDetail.chg_5d # None
                  /\ Val(NetLiqDetail.chg_5d) < NetLiqThreshold)
        /\ (/\ thresholds = EmptyMap
            /\ NetLiqDetail.chg_5d = Some(-100)
            /\ Cardinality(StressedDims) >= 3) => judgment.regime = "TIGHTENING"

C1_Witness ==
    /\ Judged /\ NonEmptyPanel /\ thresholds = EmptyMap
    /\ NetLiqDetail.chg_5d = Some(-100)
    /\ Cardinality(StressedDims) = 3
    /\ judgment.regime = "TIGHTENING"

\* C2: a judgment with at most one stressed confirmation dimension is never
\* TIGHTENING, whatever the configuration; with net liquidity weakening and
\* exactly one stressed dimension it is LOCAL_DISTURBANCE.
C2_SingleDimensionNeverTightening ==
    (Judged /\ NonEmptyPanel) =>
        /\ judgment.stress_count <= 1 => judgment.regime # "TIGHTENING"
        /\ (judgment.net_liquidity_weakening /\ judgment.stress_count = 1)
              => judgment.regime = "LOCAL_DISTURBANCE"

\* C3: when rule 1 does not apply, LOCAL_DISTURBANCE iff some confirmation
\* dimension is stressed or net liquidity is weakening, STABLE iff neither;
\* the three regimes are exclusive and cover every non-empty panel.
C3_LocalOrStable ==
    (Judged /\ NonEmptyPanel) =>
        LET weak == judgment.net_liquidity_weakening
            n == Cardinality(StressedDims)
            rule1 == weak /\ n >= min_confirmations(thresholds)
        IN /\ judgment.regime \in {"TIGHTENING", "LOCAL_DISTURBANCE", "STABLE"}
           /\ ~rule1 => /\ (judgment.regime = "LOCAL_DISTURBANCE") <=> (n > 0 \/ weak)
                        /\ (judgment.regime = "STABLE") <=> (n = 0 /\ ~weak)
           /\ rule1 => judgment.regime = "TIGHTENING"

C3_Witness ==
    /\ Judged /\ NonEmptyPanel
    /\ judgment.regime = "LOCAL_DISTURBANCE"
    /\ ~judgment.net_liquidity_weakening
    /\ Cardinality(StressedDims) >= 2

\* C4 as stated: whenever an entry of the quality report is missing,
\* degraded or stale for more than 3 days, the confidence is not high and
\* data_stale lists exactly those indicators; otherwise data_stale is empty
\* and the explanation has no staleness note.
C4_StalenessCapEveryPanel ==
    Judged =>
        /\ QualifyingKeys(data_quality) # {} => judgment.confidence # "high"
        /\ SeqRange(judgment.data_stale) = QualifyingKeys(data_quality)
        /\ Len(judgment.data_stale) = Cardinality(QualifyingKeys(data_quality))
        /\ QualifyingKeys(data_quality) = {} => ~HasClause(judgment, "STALE_NOTE")

\* C4 amended: the same for a panel with at least one row; for a panel
\* with no rows data_stale is empty whatever the quality report says.
C4_StalenessCapNonEmpty ==
    /\ (Judged /\ NonEmptyPanel) =>
        /\ QualifyingKeys(data_quality) # {} =>
              /\ judgment.confidence \in {"medium", "low"}
              /\ HasClause(judgment, "STALE_NOTE")
        /\ SeqRange(judgment.data_stale) = QualifyingKeys(data_quality)
        /\ Len(judgment.data_stale) = Cardinality(QualifyingKeys(data_quality))
        /\ QualifyingKeys(data_quality) = {} => ~HasClause(judgment, "STALE_NOTE")
    /\ (Judged /\ ~NonEmptyPanel) => judgment.data_stale = <<>>

C4_Witness ==
    /\ Judged /\ NonEmptyPanel
    /\ judgment.regime = "STABLE"
    /\ Cardinality(QualifyingKeys(data_quality)) = 2
    /\ judgment.confidence = "medium"

\* C5: a TIGHTENING judgment has confidence high iff neither stale data nor
\* a missing risk-asset confirmation is present, medium iff exactly one of
\* the two, low iff both.
C5_TighteningConfidence ==
    (Judged /\ judgment.regime = "TIGHTENING") =>
        LET stale == QualifyingKeys(data_quality) # {}
            unconfirmed == ~RiskConfirmsWeakness
        IN /\ (judgment.confidence = "high") <=> (~stale /\ ~unconfirmed)
           /\ (judgment.confidence = "medium") <=> (stale # unconfirmed)
           /\ (judgment.confidence = "low") <=> (stale /\ unconfirmed)

C5_Witness ==
    /\ Judged /\ judgment.regime = "TIGHTENING"
    /\ QualifyingKeys(data_quality) # {}
    /\ ~RiskConfirmsWeakness
    /\ judgment.confidence = "low"

\* C6: every TIGHTENING judgment whose risk assets do not confirm weakness
\* (SPX 5-day return not below the threshold, or SPX unavailable) says that
\* a leading signal has appeared but market confirmation is insufficient,
\* stale data or not.
C6_LeadingSignalStated ==
    (Judged /\ judgment.regime = "TIGHTENING") =>
        /\ judgment.risk_asset_confirming <=> RiskConfirmsWeakness
        /\ HasClause(judgment, "LEADING_UNCONFIRMED") <=> ~RiskConfirmsWeakness

C6_Witness ==
    /\ Judged /\ judgment.regime = "TIGHTENING"
    /\ "spx" \notin DOMAIN panel.cols
    /\ QualifyingKeys(data_quality) # {}
    /\ HasClause(judgment, "LEADING_UNCONFIRMED")
    /\ HasClause(judgment, "STALE_NOTE")

\* C8: evaluate returns UNKNOWN with confidence none exactly when the panel
\* has no rows (stress_count 0, no stress dimensions, no details); a panel
\* with a row never gives UNKNOWN or none.
C8_UnknownIffEmptyPanel ==
    Judged =>
        /\ judgment.regime \in Regimes
        /\ (judgment.regime = "UNKNOWN") <=> (panel.rows = 0)
        /\ (judgment.confidence = "none") <=> (panel.rows = 0)
        /\ panel.rows = 0 =>
              /\ judgment.stress_count = 0
              /\ judgment.stress_dimensions = <<>>
              /\ DOMAIN judgment.dimension_details = {}

C8_Witness ==
    /\ Judged /\ panel.rows = 0 /\ DOMAIN panel.cols # {}
    /\ QualifyingKeys(data_quality) # {}
    /\ judgment.regime = "UNKNOWN"

\* C9: re-evaluating the same panel, signal table and configuration with
\* another quality report changes neither the regime nor the weakening
\* flag, the stress count and names, the risk-asset flag or the dimension
\* details; every quality report yields a judgment.
C9_QualityOnlyDowngrades ==
    [][(Judged /\ pc' = "judged") =>
          /\ judgment'.regime = judgment.regime
          /\ judgment'.net_liquidity_weakening = judgment.net_liquidity_weakening
          /\ judgment'.stress_count = judgment.stress_count
          /\ judgment'.stress_dimensions = judgment.stress_dimensions
          /\ judgment'.risk_asset_confirming = judgment.risk_asset_confirming
          /\ judgment'.dimension_details = judgment.dimension_details
          /\ judgment'.regime \in Regimes
          /\ judgment'.confidence \in {"high", "medium", "low", "none"}]_vars

C9_Witness ==
    /\ Judged /\ NonEmptyPanel
    /\ judgment.regime = "TIGHTENING"
    /\ \E i \in 1..Len(data_quality) : ~data_quality[i].isdict
    /\ \E i \in 1..Len(data_quality) :
          data_quality[i].isdict /\ data_quality[i].status = None

----------------------------------------------------------------------------
(* Properties of the tightening scenario (specification SpecE2E)           *)

LastChange5d(name) == Val(panel.cols[name][21]) - Val(panel.cols[name][16])
SpxFell2Pct ==
    /\ "spx" \in DOMAIN panel.cols
    /\ 100 * (Val(panel.cols["spx"][21]) - Val(panel.cols["spx"][16]))
          < -2 * Val(panel.cols["spx"][16])
NamedDims(j) ==
    UNION {SeqRange(j.explanation[i].items) :
             i \in {x \in 1..Len(j.explanation) : j.explanation[x].clause = "DIMS_CONFIRM"}}

\* C7 as stated: on the scenario, with no stale data, the judgment is
\* TIGHTENING with confidence high and its explanation mentions the
\* weakening of net liquidity and names at least 2 confirmation dimensions.
C7_ScenarioTighteningHigh ==
    Judged =>
        /\ judgment.regime = "TIGHTENING"
        /\ judgment.confidence = "high"
        /\ HasClause(judgment, "NET_LIQ_WEAK")
        /\ Cardinality(NamedDims(judgment)) >= 2

\* C7 amended: the scenario gives TIGHTENING exactly when the last 5-day
\* change of net_liquidity is below -50 and that of hy_oas above 15bp (a
\* steady pace gives exactly -50 and +15bp, and LOCAL_DISTURBANCE); the
\* explanation then mentions the weakening and names sofr and hy_oas, and
\* the confidence is high only if SPX fell more than 2% over the 5 days,
\* medium (with the leading-signal statement) otherwise.
C7_ScenarioAmended ==
    Judged =>
        LET joint == LastChange5d("net_liquidity") < -50 /\ LastChange5d("hy_oas") > 15
        IN /\ joint =>
                /\ judgment.regime = "TIGHTENING"
                /\ HasClause(judgment, "NET_LIQ_WEAK")
                /\ NamedDims(judgment) = {"sofr", "hy_oas"}
                /\ (judgment.confidence = "high") <=> SpxFell2Pct
                /\ ~SpxFell2Pct =>
                      /\ judgment.confidence = "medium"
                      /\ HasClause(judgment, "LEADING_UNCONFIRMED")
           /\ ~joint => judgment.regime = "LOCAL_DISTURBANCE"
           /\ judgment.data_stale = <<>>

C7_Witness ==
    /\ Judged
    /\ panel.cols["net_liquidity"][1] = Some(6800)
    /\ panel.cols["net_liquidity"][21] = Some(6600)
    /\ judgment.regime = "TIGHTENING"
    /\ judgment.confidence = "high"
    /\ NamedDims(judgment) = {"sofr", "hy_oas"}

----------------------------------------------------------------------------
(* Properties of the scorer (specification SpecScorer)                     *)

Scored == pc = "scored"
ObservationCount(nm) ==
    IF nm \in DOMAIN panel.cols
    THEN Cardinality({i \in 1..Len(panel.cols[nm]) : panel.cols[nm][i] # NaN})
    ELSE 0
QualifyingIndicators == {nm \in SeqRange(INDICATOR_ORDER) : ObservationCount(nm) >= 30}

\* C10: for a panel in which at least one weighted indicator has 30 or
\* more valid observations (exactly one included), compute returns a
\* composite_score in [0,100] and every per-indicator score it reports is
\* in [0,100] (scores are reported in tenths).
C10_CompositeInRange ==
    (Scored /\ QualifyingIndicators # {}) =>
        /\ score.status = "ok"
        /\ score.composite_score \in 0..1000
        /\ DOMAIN score.individual_scores = QualifyingIndicators
        /\ \A nm \in QualifyingIndicators :
              score.individual_scores[nm].score \in 0..1000

C10_Witness ==
    /\ Scored
    /\ Cardinality(QualifyingIndicators) = 1
    /\ \E nm \in QualifyingIndicators : ObservationCount(nm) = 30
    /\ score.status = "ok"
    /\ score.composite_score \in 1..999

QualifyingSeq == SelectSeq(INDICATOR_ORDER, LAMBDA nm : nm \in QualifyingIndicators)
ScoredOk == Scored /\ score.status = "ok"
Abs(x) == IF x < 0 THEN -x ELSE x

\* C11: the composite is (sum of weight_i * score_i) / (sum of weight_i)
\* over exactly the indicators that are columns of the panel with at least
\* 30 observations (the reported composite is the tenth nearest to that
\* quotient); absent or shorter indicators are in neither sum; the declared
\* weights sum to 1; with one qualifying indicator the composite is its score.
C11_WeightRenormalization ==
    (Scored /\ QualifyingIndicators # {}) =>
        LET q == QualifyingSeq
            num == SumSeq([i \in 1..Len(q) |->
                      INDICATOR_WEIGHTS[q[i]] * score.individual_scores[q[i]].score])
            den == SumSeq([i \in 1..Len(q) |-> INDICATOR_WEIGHTS[q[i]]])
        IN /\ score.status = "ok"
           /\ DOMAIN score.individual_scores = QualifyingIndicators
           /\ 2 * Abs(score.composite_score * den - num) <= den
           /\ SumSeq([i \in 1..Len(INDICATOR_ORDER) |->
                         score.weight_table[INDICATOR_ORDER[i]]]) = 100
           /\ Len(q) = 1 => score.composite_score = score.individual_scores[q[1]].score

C11_Witness ==
    /\ ScoredOk
    /\ Cardinality(QualifyingIndicators) = 2
    /\ \E a, b \in QualifyingIndicators : INDICATOR_WEIGHTS[a] # INDICATOR_WEIGHTS[b]
    /\ \A nm \in QualifyingIndicators :
          score.individual_scores[nm].score # score.composite_score

\* C12: when no weighted indicator is a column of the panel with at least 30
\* observations (a panel without rows included), compute does not raise and
\* returns composite_score 50 with tier NEUTRAL.
C12_DegradeNeverCrash ==
    (Scored /\ QualifyingIndicators = {}) =>
        /\ score.status = "ok"
        /\ score.composite_score = 500
        /\ score.tier = "NEUTRAL"

\* the series negated, and the score of an indicator under the flipped
\* direction for the negated series and z-score
Negated(xs) == [i \in 1..Len(xs) |-> -xs[i]]
FlippedScore(nm) ==
    LET xs == DropNa(panel.cols[nm])
    IN indicator_score(-INDICATOR_DIRECTION[nm], nm, Negated(xs),
                       -indicator_zscore(nm, xs, signal_panel))

\* C13: flipping an indicator's direction and negating its series (and its
\* z-score) leaves its score and its percentile, trend and z-score
\* sub-scores unchanged.
C13_DirectionSymmetry ==
    ScoredOk =>
        \A nm \in DOMAIN score.individual_scores :
            LET a == score.individual_scores[nm]
                b == FlippedScore(nm)
            IN /\ a.score = b.score
               /\ a.pctile_score = b.pctile_score
               /\ a.trend_score = b.trend_score
               /\ a.zscore_score = b.zscore_score

\* the tier the thresholds 80/60/40/20 assign to a score in tenths
TierOfReported(t) ==
    IF t >= 800 THEN "STRONG_BULL" ELSE IF t >= 600 THEN "BULL"
    ELSE IF t >= 400 THEN "NEUTRAL" ELSE IF t >= 200 THEN "BEAR"
    ELSE "STRONG_BEAR"

\* C14 (as claimed): the tier returned is the one the thresholds 80/60/40/20
\* assign to the composite_score of the same result.
C14_TierOfReportedScore ==
    ScoredOk => score.tier = TierOfReported(score.composite_score)

\* C14 (amended): the tier is the one the thresholds assign to the
\* composite before it is rounded to one decimal: it is the tier of the
\* reported composite_score, or, when the reported score is exactly 80, 60,
\* 40 or 20, possibly the tier just below it.
C14_TierOfUnroundedScore ==
    ScoredOk =>
        LET t == score.composite_score
        IN \/ score.tier = TierOfReported(t)
           \/ t \in {800, 600, 400, 200} /\ score.tier = TierOfReported(t - 1)

C14_Witness ==
    /\ ScoredOk
    /\ score.composite_score \in {800, 600, 400, 200}
    /\ score.tier = TierOfReported(score.composite_score - 1)

\* the asset score, in tenths, that 50 + beta * (composite - 50) clamped to
\* [0,100] gives for a beta in hundredths
AssetScore(beta, t) == Max2(0, Min2(1000, 500 + (beta * (t - 500)) \div 100))
Between(x, a, b) == Min2(a, b) - 1 <= x /\ x <= Max2(a, b) + 1

\* C15: each asset's score is 50 + beta * (composite - 50) clamped to
\* [0,100], with beta about 1.5 (between 1.4 and 1.6) for BTC, 0.9 for SPX
\* and Nasdaq's between the two; a composite of 50 gives every asset 50 and
\* every asset score is in [0,100].
C15_AssetOutlookBetas ==
    ScoredOk =>
        LET t == score.composite_score
            o == score.risk_asset_outlook
        IN /\ Between(o.btc, AssetScore(140, t), AssetScore(160, t))
           /\ Between(o.spx, AssetScore(90, t), AssetScore(90, t))
           /\ Between(o.nasdaq, o.spx, o.btc)
           /\ t = 500 => o.btc = 500 /\ o.spx = 500 /\ o.nasdaq = 500
           /\ {o.btc, o.spx, o.nasdaq} \subseteq 0..1000

----------------------------------------------------------------------------
(* ForwardAnalyzer.  Rows are numbered from 0 as in the code: row i of a   *)
(* column is series[i + 1].  The panel's index is the run of business days *)
(* panel.start, panel.start + 1, ...; a calendar month is a run of         *)
(* DaysPerMonth business days.  Returns and percentage changes are in      *)
(* hundredths of a percent, z-scores in hundredths, similarities and       *)
(* probabilities in thousandths, scores in thousandths of a point          *)
(* (reported in tenths).                                                   *)

DaysPerMonth == 21

IND_ORDER ==
    <<"net_liquidity", "vix", "hy_oas", "sofr", "dxy", "carry_spread_bps",
      "curve_slope_bps", "on_rrp">>

IND_DIRECTION ==
    [net_liquidity |-> 1, vix |-> -1, hy_oas |-> -1, sofr |-> -1, dxy |-> -1,
     carry_spread_bps |-> 1, curve_slope_bps |-> 1, on_rrp |-> -1]

TrendMinObservations == 25
AnalogueMinRows == 60
ProfileWindow == 60
MinProfileIndicators == 4
HistWindowRows == 60
HistMinObservations == 30
ExcludeLastRows == 25
SimilarityThreshold == 700
DefaultTopN == 10
RegimeMinRows == 100
RegimeFirstRow == 60
RegimeMinScores == 50
BearBelow == 35
NeutralBelow == 65
TransitionHorizon == 5

\* series.iloc[i] of a column, and of a list of numbers counted from its end
At(series, i) == series[i + 1]
FromEnd(xs, k) == xs[Len(xs) - k + 1]

\* round(a / b) for b > 0, halves away from zero
RoundDiv(a, b) ==
    IF a >= 0 THEN (2 * a + b) \div (2 * b) ELSE -((2 * (-a) + b) \div (2 * b))

\* str(panel.index[i].date()) and its [:7], the year and month
DateOf(pn, i) == pn.start + i
MonthOf(date) == date \div DaysPerMonth

\* one indicator's entry of _compute_trends; xs is its dropna()'d series
trend_of(ind, xs) ==
    LET n == Len(xs)
        direction == IND_DIRECTION[ind]
        chg_5d == IF n > 5 THEN FromEnd(xs, 1) - FromEnd(xs, 6) ELSE 0
        chg_10d == IF n > 10 THEN FromEnd(xs, 1) - FromEnd(xs, 11) ELSE 0
        chg_20d == IF n > 20 THEN FromEnd(xs, 1) - FromEnd(xs, 21) ELSE 0
        base == IF n > 5 /\ FromEnd(xs, 6) # 0 THEN Abs(FromEnd(xs, 6)) ELSE 1
        base20 == IF n > 20 /\ FromEnd(xs, 21) # 0 THEN Abs(FromEnd(xs, 21)) ELSE 1
        \* velocity and acceleration in 1e-4 percent
        velocity == (chg_5d * 1000000) \div base
        prev_base == IF FromEnd(xs, 11) # 0 THEN Abs(FromEnd(xs, 11)) ELSE 1
        prev_velocity ==
            IF n > 10
            THEN ((FromEnd(xs, 6) - FromEnd(xs, 11)) * 1000000) \div prev_base
            ELSE 0
        acceleration == IF n > 10 THEN velocity - prev_velocity ELSE 0
    IN [current |-> FromEnd(xs, 1),
        chg_5d |-> chg_5d,
        chg_10d |-> chg_10d,
        chg_20d |-> chg_20d,
        chg_5d_pct |-> RoundDiv(chg_5d * 10000, base),
        chg_20d_pct |-> RoundDiv(chg_20d * 10000, base20),
        velocity |-> RoundDiv(chg_5d * 10000, base),
        acceleration |-> RoundDiv(acceleration, 100),
        direction |-> IF Abs(velocity) < 1000 THEN "sideways"
                      ELSE IF velocity > 0 THEN "rising" ELSE "falling",
        momentum_signal |->
            IF Abs(acceleration) < 500 THEN "steady"
            ELSE IF \/ velocity > 0 /\ acceleration > 0
                    \/ velocity < 0 /\ acceleration < 0
                 THEN "accelerating" ELSE "decelerating",
        is_improving |-> chg_5d * direction > 0]

\* the indicators _compute_trends reports
trend_indicators(cols) ==
    {ind \in SeqRange(IND_ORDER) :
        ind \in DOMAIN cols /\ Len(DropNa(cols[ind])) >= TrendMinObservations}

\* ForwardAnalyzer._compute_trends
compute_trends(pn) ==
    [ind \in trend_indicators(pn.cols) |-> trend_of(ind, DropNa(pn.cols[ind]))]

\* indicators = [k for k in IND_DIRECTION if k in panel.columns]
present_indicators(cols) == SelectSeq(IND_ORDER, LAMBDA k : k \in DOMAIN cols)

\* (x - mean) / std of the observations obs if std > 0, else 0
ZOrZero(obs, x) == LET z == ZOfWindow(obs, x) IN IF z = NaN THEN 0 ELSE Val(z)

\* common_inds: the indicators with an entry in current_profile
profile_indicators(cols) ==
    SelectSeq(present_indicators(cols),
              LAMBDA k : Len(SelectSeq(cols[k], IsSome)) >= ProfileWindow)

\* current_profile[ind]: the last observation against the last 60
\* observations of the dropna()'d column
current_z(series) ==
    LET obs == SelectSeq(series, IsSome)
        c == Len(obs)
    IN ZOrZero(SubSeq(obs, c - ProfileWindow + 1, c), Val(obs[c]))

current_vec(cols, inds) == [k \in 1..Len(inds) |-> current_z(cols[inds[k]])]

\* hist: panel[ind].iloc[max(0, i-60):i+1].dropna(), the observations of
\* rows i-60 .. i
hist_obs(series, i) ==
    SelectSeq(SubSeq(series, Max2(0, i - HistWindowRows) + 1, i + 1), IsSome)

\* the entry of profile for one indicator at row i (hist has 30 or more
\* observations)
hist_z(series, i) ==
    IF IsSome(At(series, i)) THEN ZOrZero(hist_obs(series, i), Val(At(series, i)))
    ELSE 0

\* valid: every indicator has at least 30 observations in its window
row_valid(cols, inds, i) ==
    \A k \in 1..Len(inds) : Len(hist_obs(cols[inds[k]], i)) >= HistMinObservations

hist_vec(cols, inds, i) == [k \in 1..Len(inds) |-> hist_z(cols[inds[k]], i)]

NormSq(v) == SumSeq([k \in 1..Len(v) |-> v[k] * v[k]])

\* v / |v| in units of 1e-4 (|v| is not 0)
Unit(v) ==
    LET n2 == NormSq(v)
        r == IF n2 <= 200000 THEN ISqrt(n2 * 10000) ELSE 10 * ISqrt(n2 * 100)
    IN [k \in 1..Len(v) |-> (v[k] * 1000000) \div r]

\* dot / (|a| |b|) in units of 1e-4
Cosine(a, b) ==
    LET ua == Unit(a)
        ub == Unit(b)
    IN SumSeq([k \in 1..Len(a) |-> ua[k] * ub[k]]) \div 10000

\* the forward return of an asset h rows after row i, or None
fwd_return(pn, asset, i, h) ==
    IF asset \notin DOMAIN pn.cols THEN None
    ELSE LET col == pn.cols[asset]
         IN IF ~IsSome(At(col, i)) THEN None
            ELSE IF Val(At(col, i)) <= 0 THEN None
            ELSE IF i + h < pn.rows /\ IsSome(At(col, i + h))
                 THEN Some(RoundDiv((Val(At(col, i + h)) - Val(At(col, i))) * 10000,
                                    Val(At(col, i))))
                 ELSE None

\* one pass of the loop over the history: the analogue appended for row i,
\* or None when the row is skipped (`continue`)
candidate_at(pn, inds, cur, i) ==
    IF ~row_valid(pn.cols, inds, i) THEN None
    ELSE LET profile == hist_vec(pn.cols, inds, i)
         IN IF NormSq(cur) = 0 \/ NormSq(profile) = 0 THEN None
            ELSE LET sim == Cosine(cur, profile)
                 IN IF sim < 10 * SimilarityThreshold THEN None
                    ELSE Some([row |-> i,
                               date |-> DateOf(pn, i),
                               similarity |-> (sim + 5) \div 10,
                               score_then |->
                                   RoundDiv(5 * SumSeq([k \in 1..Len(profile) |->
                                                           Abs(profile[k])]),
                                            Len(profile)),
                               spx_fwd_5d |-> fwd_return(pn, "spx", i, 5),
                               spx_fwd_10d |-> fwd_return(pn, "spx", i, 10),
                               spx_fwd_20d |-> fwd_return(pn, "spx", i, 20),
                               btc_fwd_5d |-> fwd_return(pn, "btc", i, 5),
                               btc_fwd_10d |-> fwd_return(pn, "btc", i, 10),
                               btc_fwd_20d |-> fwd_return(pn, "btc", i, 20)])

rows_considered_to_the_end(pn) ==
    {i \in 0..(pn.rows - 1) : i >= AnalogueMinRows}

\* range(60, len(panel) - 25)
rows_considered(pn) ==
    {i \in 0..(pn.rows - 1) : i >= AnalogueMinRows /\ i < pn.rows - ExcludeLastRows}

\* the list `analogues` before it is sorted, in row order
candidates(pn, inds) ==
    LET cur == current_vec(pn.cols, inds)
        first == CHOOSE i \in rows_considered(pn) : \A j \in rows_considered(pn) : i <= j
        all == [j \in 1..Cardinality(rows_considered(pn)) |->
                   candidate_at(pn, inds, cur, first + j - 1)]
        kept == SelectSeq(all, IsSome)
    IN IF rows_considered(pn) = {} THEN <<>>
       ELSE [j \in 1..Len(kept) |-> Val(kept[j])]

\* analogues.sort(key=lambda x: -x['similarity']): a stable sort
sort_by_similarity(as) ==
    LET n == Len(as)
        rank == [j \in 1..n |->
                    1 + Cardinality({k \in 1..n : as[k].similarity > as[j].similarity})
                      + Cardinality({k \in 1..(j - 1) :
                                        as[k].similarity = as[j].similarity})]
    IN [q \in 1..n |-> as[CHOOSE j \in 1..n : rank[j] = q]]

RECURSIVE dedupe_no_limit(_, _, _, _, _)
dedupe_no_limit(sorted, k, filtered, used, top_n) ==
    IF k > Len(sorted) THEN filtered
    ELSE LET a == sorted[k]
             date_key == MonthOf(a.date)
             f2 == IF date_key \notin used THEN Append(filtered, a) ELSE filtered
         IN dedupe_no_limit(sorted, k + 1, f2, used \cup {date_key}, top_n)

\* the loop that keeps the first analogue of each month and stops at top_n
RECURSIVE dedupe(_, _, _, _, _)
dedupe(sorted, k, filtered, used, top_n) ==
    IF k > Len(sorted) THEN filtered
    ELSE LET a == sorted[k]
             date_key == MonthOf(a.date)
             f2 == IF date_key \notin used THEN Append(filtered, a) ELSE filtered
         IN IF Len(f2) >= top_n THEN f2
            ELSE dedupe(sorted, k + 1, f2, used \cup {date_key}, top_n)

\* ForwardAnalyzer._find_analogues
find_analogues(pn, top_n) ==
    LET indicators == present_indicators(pn.cols)
        common_inds == profile_indicators(pn.cols)
    IN IF Len(indicators) = 0 \/ pn.rows < AnalogueMinRows THEN <<>>
       ELSE IF Len(common_inds) < MinProfileIndicators THEN <<>>
       ELSE dedupe(sort_by_similarity(candidates(pn, common_inds)), 1, <<>>, {}, top_n)

\* sorted(vals)[k - 1]
KthSmallest(vals, k) ==
    LET n == Len(vals)
    IN CHOOSE v \in SeqRange(vals) :
          /\ Cardinality({j \in 1..n : vals[j] < v}) < k
          /\ Cardinality({j \in 1..n : vals[j] <= v}) >= k

\* round(np.median(vals), 2)
Median(vals) ==
    LET n == Len(vals)
    IN IF n % 2 = 1 THEN KthSmallest(vals, (n + 1) \div 2)
       ELSE RoundDiv(KthSmallest(vals, n \div 2) + KthSmallest(vals, n \div 2 + 1), 2)

\* round(np.percentile(vals, 25 * quarter), 2): linear interpolation
Quartile(vals, quarter) ==
    LET n == Len(vals)
        pos == (n - 1) * quarter
        lo == KthSmallest(vals, pos \div 4 + 1)
        hi == KthSmallest(vals, Min2(n, pos \div 4 + 2))
    IN RoundDiv(4 * lo + (pos % 4) * (hi - lo), 4)

\* stats(key) of _compute_forward_returns: median, p25, p75 and win rate
\* (hundredths) of the analogues' values that are not None
return_stats(analogues, key) ==
    LET cells == SelectSeq([j \in 1..Len(analogues) |-> analogues[j][key]], IsSome)
        vals == [j \in 1..Len(cells) |-> Val(cells[j])]
    IN IF Len(vals) = 0
       THEN [median |-> None, p25 |-> None, p75 |-> None, win_rate |-> None]
       ELSE [median |-> Some(Median(vals)),
             p25 |-> Some(Quartile(vals, 1)),
             p75 |-> Some(Quartile(vals, 3)),
             win_rate |-> Some(RoundDiv(100 * Cardinality({j \in 1..Len(vals) :
                                                              vals[j] > 0}),
                                        Len(vals)))]

\* ForwardAnalyzer._compute_forward_returns
compute_forward_returns(analogues) ==
    IF Len(analogues) = 0
    THEN [n_analogues |-> 0,
          spx_median_5d |-> None, spx_median_10d |-> None, spx_median_20d |-> None,
          btc_median_5d |-> None, btc_median_10d |-> None, btc_median_20d |-> None,
          win_rate_spx_20d |-> None, win_rate_btc_20d |-> None]
    ELSE LET spx5 == return_stats(analogues, "spx_fwd_5d")
             spx10 == return_stats(analogues, "spx_fwd_10d")
             spx20 == return_stats(analogues, "spx_fwd_20d")
             btc5 == return_stats(analogues, "btc_fwd_5d")
             btc10 == return_stats(analogues, "btc_fwd_10d")
             btc20 == return_stats(analogues, "btc_fwd_20d")
         IN [n_analogues |-> Len(analogues),
             spx_median_5d |-> spx5.median, spx_p25_5d |-> spx5.p25,
             spx_p75_5d |-> spx5.p75,
             spx_median_10d |-> spx10.median, spx_p25_10d |-> spx10.p25,
             spx_p75_10d |-> spx10.p75,
             spx_median_20d |-> spx20.median, spx_p25_20d |-> spx20.p25,
             spx_p75_20d |-> spx20.p75,
             win_rate_spx_20d |-> spx20.win_rate,
             btc_median_5d |-> btc5.median, btc_p25_5d |-> btc5.p25,
             btc_p75_5d |-> btc5.p75,
             btc_median_10d |-> btc10.median, btc_p25_10d |-> btc10.p25,
             btc_p75_10d |-> btc10.p75,
             btc_median_20d |-> btc20.median, btc_p25_20d |-> btc20.p25,
             btc_p75_20d |-> btc20.p75,
             win_rate_btc_20d |-> btc20.win_rate]

\* score_data.get('composite_score', 50), in tenths, and
\* score_data.get('tier_cn', ...)
composite_of(score_data) ==
    IF "composite_score" \in DOMAIN score_data THEN score_data.composite_score
    ELSE 500
tier_of(score_data) ==
    IF "tier" \in DOMAIN score_data THEN score_data.tier ELSE "unknown"

regime_order == <<"bear", "neutral", "bull">>

\* the regime of a percentile count / i * 100
regime_of_percentile(count, i) ==
    IF count * 100 < BearBelow * i THEN "bear"
    ELSE IF count * 100 < NeutralBelow * i THEN "neutral"
    ELSE "bull"

\* the regime of the current composite score (tenths)
regime_of_score(t) ==
    IF t < 10 * BearBelow THEN "bear"
    ELSE IF t < 10 * NeutralBelow THEN "neutral"
    ELSE "bull"

\* regimes: one per observation of net_liquidity from the 61st on, from the
\* share of the earlier observations below it
history_regimes(nl) ==
    [k \in 1..Max2(0, Len(nl) - RegimeFirstRow) |->
        LET i == RegimeFirstRow + k - 1
        IN regime_of_percentile(Cardinality({j \in 1..i : nl[j] < nl[i + 1]}), i)]

\* transitions[current][future]; a regime is a key of `transitions` when it
\* is the regime of some position that has a position 5 steps later
transition_count(regimes, c, f) ==
    Cardinality({t \in 1..(Len(regimes) - TransitionHorizon) :
                    regimes[t] = c /\ regimes[t + TransitionHorizon] = f})
transition_keys(regimes) ==
    {regimes[t] : t \in 1..Max2(0, Len(regimes) - TransitionHorizon)}

flat_prior(score_data) ==
    [current_regime |-> tier_of(score_data),
     stay_prob |-> 600, improve_prob |-> 200, worsen_prob |-> 200]

\* a default of 0.33 for each regime
unseen_regime_default_thirds(r) == 330

\* probs = {'bear': 0.33, 'neutral': 0.34, 'bull': 0.33}
unseen_regime_default(r) == IF r = "neutral" THEN 340 ELSE 330

\* ForwardAnalyzer._regime_transition_probs
regime_transition_probs(pn, score_data) ==
    IF "net_liquidity" \notin DOMAIN pn.cols \/ pn.rows < RegimeMinRows
    THEN flat_prior(score_data)
    ELSE LET nl == DropNa(pn.cols["net_liquidity"])
             regimes == history_regimes(nl)
             cur == regime_of_score(composite_of(score_data))
             idx == CHOOSE k \in 1..3 : regime_order[k] = cur
             seen == cur \in transition_keys(regimes)
             total == SumSeq([k \in 1..3 |-> transition_count(regimes, cur, regime_order[k])])
             \* the sum of probs over a set of positions of regime_order,
             \* rounded to 3 decimals
             prob(ks) ==
                 LET q == SelectSeq(<<1, 2, 3>>, LAMBDA k : k \in ks)
                 IN IF seen
                    THEN RoundDiv(1000 * SumSeq([j \in 1..Len(q) |->
                              transition_count(regimes, cur, regime_order[q[j]])]), total)
                    ELSE SumSeq([j \in 1..Len(q) |->
                              unseen_regime_default(regime_order[q[j]])])
         IN IF Len(regimes) < RegimeMinScores THEN flat_prior(score_data)
            ELSE [current_regime |-> tier_of(score_data),
                  current_regime_key |-> cur,
                  stay_prob |-> prob({idx}),
                  improve_prob |-> prob({k \in 1..3 : k > idx}),
                  worsen_prob |-> prob({k \in 1..3 : k < idx}),
                  transition_matrix |->
                      [c \in transition_keys(regimes) |->
                          [f \in SeqRange(regime_order) |->
                              RoundDiv(1000 * transition_count(regimes, c, f),
                                       Max2(1, SumSeq([k \in 1..3 |->
                                           transition_count(regimes, c, regime_order[k])])))]]]

forward_score_swapped(current_score, improving, total, hist_score) ==
    Clamp((current_score * 30 * total + improving * FullScore * 40
              + hist_score * 30 * total) \div (100 * total))

\* forward_score = current * 0.40 + momentum * 0.30 + hist * 0.30, clamped,
\* where momentum is improving / total * 100 (kept as a fraction, so that
\* the thresholds compare the exact value)
forward_score(current_score, improving, total, hist_score) ==
    Clamp((current_score * 40 * total + improving * FullScore * 30
              + hist_score * 30 * total) \div (100 * total))

\* hist_score from the two medians (hundredths of a percent, or None)
hist_score_of(spx_med, btc_med) ==
    IF IsSome(spx_med) /\ IsSome(btc_med)
    THEN Clamp(50000 + (Val(spx_med) * 50 + Val(btc_med) * 30) \div 2)
    ELSE IF IsSome(spx_med) THEN Clamp(50000 + Val(spx_med) * 80)
    ELSE 50000

bias_of(s) ==
    IF s >= 70000 THEN "bullish" ELSE IF s >= 55000 THEN "mild_bull"
    ELSE IF s >= 45000 THEN "neutral" ELSE IF s >= 30000 THEN "mild_bear"
    ELSE "bearish"

\* ForwardAnalyzer._composite_forward_signal
composite_forward_signal(trends, fwd_stats, score_data) ==
    LET current_score == composite_of(score_data) * 100
        improving == Cardinality({ind \in DOMAIN trends : trends[ind].is_improving})
        total == Max2(Cardinality(DOMAIN trends), 1)
        momentum_score == (improving * FullScore) \div total
        hist_score == hist_score_of(fwd_stats.spx_median_20d, fwd_stats.btc_median_20d)
        fs == forward_score(current_score, improving, total, hist_score)
    IN [score |-> Round1(fs),
        bias |-> bias_of(fs),
        components |-> [current_score |-> Round1(current_score),
                        momentum_score |-> Round1(momentum_score),
                        historical_score |-> Round1(hist_score)],
        improving_ratio |-> RoundDiv(100 * improving, total),
        improving_count |-> improving,
        total_indicators |-> total]

\* ForwardAnalyzer.analyze
analyze(pn, score_data) ==
    LET trend_summary == compute_trends(pn)
        analogues == find_analogues(pn, DefaultTopN)
        forward_stats == compute_forward_returns(analogues)
    IN [status |-> "ok",
        trend_summary |-> trend_summary,
        historical_analogues |-> analogues,
        forward_return_stats |-> forward_stats,
        regime_outlook |-> regime_transition_probs(pn, score_data),
        forward_signal |-> composite_forward_signal(trend_summary, forward_stats,
                                                    score_data),
        ai_narrative |-> None]

----------------------------------------------------------------------------
(* Specification of the forward analyzer: analyze is called on a panel and *)
(* on the scorer's result.  The panels have 0 to 320 rows; the variant     *)
(* decides how many indicators are columns, which of spx and btc are,      *)
(* where observations are missing, the date of the first row and the shape *)
(* of each column.                                                         *)

MaxVariant == 11

ForwardLengths == {0, 30, 59, 60, 85, 86, 100, 110, 130, 300, 320}

\* a triangle wave of period p
Triangle(p, m) == IF m % p < p \div 2 THEN m % p ELSE p - (m % p)

\* row i of a column of the given kind: three waves and a rising wave
ForwardValue(kind, i) ==
    CASE kind = 0 -> 100 + 2 * Triangle(20, i)
      [] kind = 1 -> 100 + 2 * Triangle(20, i + 7)
      [] kind = 2 -> 100 + i \div 2 + Triangle(20, i + 3)
      [] kind = 3 -> 150 - Triangle(30, i)

\* is row i of the k-th indicator missing?  gap 1: a week of the 2nd
\* indicator; gap 2: the first 45 rows of the 3rd; gap 3: the last row of
\* the 1st
Missing(gap, k, i, n) ==
    \/ gap = 1 /\ k = 2 /\ i >= 70 /\ i < 76
    \/ gap = 2 /\ k = 3 /\ i < 45
    \/ gap = 3 /\ k = 1 /\ i = n - 1

AssetValue(asset, i) ==
    IF asset = "spx" THEN 200 + i \div 3 + Triangle(20, i + 5)
    ELSE 300 + 3 * Triangle(20, i + 10) - i \div 5

ForwardPanel(n, v) ==
    LET nind == 3 + (v % 3)
        gap == (v \div 3) % 4
        assets == CASE (v \div 2) % 3 = 0 -> {"spx", "btc"}
                    [] (v \div 2) % 3 = 1 -> {"spx"}
                    [] OTHER -> {}
        inds == {IND_ORDER[k] : k \in 1..nind}
    IN [rows |-> n,
        start |-> 11 * (v % 2),
        cols |-> [c \in inds \cup assets |->
                    IF c \in assets
                    THEN [j \in 1..n |-> Some(AssetValue(c, j - 1))]
                    ELSE LET k == CHOOSE k \in 1..nind : IND_ORDER[k] = c
                         IN [j \in 1..n |->
                                IF Missing(gap, k, j - 1, n) THEN NaN
                                ELSE Some(ForwardValue((k + v) % 4, j - 1))]]]

\* the scorer's result as analyze reads it: composite_score (tenths) and tier
ScoreData ==
    {[status |-> "ok"]} \cup
    {[status |-> "ok", composite_score |-> t, tier |-> get_tier(100 * t)] :
        t \in {300, 500, 624, 700}}

InitForward ==
    /\ \E n \in ForwardLengths, v \in 0..MaxVariant :
          /\ panel = ForwardPanel(n, v)
          /\ score \in IF n > 130 THEN {[status |-> "ok"]} ELSE ScoreData
    /\ signal_panel = EmptyMap
    /\ thresholds = EmptyMap
    /\ data_quality = <<>>
    /\ judgment = NoJudgment
    /\ forward = NoForward
    /\ calls = NoCalls
    /\ pc = "scored"

Analyze ==
    /\ pc = "scored"
    /\ forward' = analyze(panel, score)
    /\ pc' = "analyzed"
    /\ UNCHANGED <<panel, signal_panel, thresholds, data_quality, judgment, score,
                   calls>>

NextForward == Analyze

SpecForward == InitForward /\ [][NextForward]_vars

----------------------------------------------------------------------------
(* Properties of the forward analyzer (specification SpecForward)          *)

Analyzed == pc = "analyzed"
Analogues == forward.historical_analogues
AnalogueMonths == {MonthOf(Analogues[j].date) : j \in 1..Len(Analogues)}

\* the analogues of every row the search keeps, before sorting
AllCandidates ==
    IF \/ panel.rows < AnalogueMinRows
       \/ Len(profile_indicators(panel.cols)) < MinProfileIndicators
    THEN <<>>
    ELSE candidates(panel, profile_indicators(panel.cols))

\* C16: no analogue returned by the search is among the last 25 rows of the
\* panel nor among its first 60; its date is the date of its row; for a
\* panel of 300 rows every analogue is in rows 60..274; a panel too short
\* to hold such a row (85 rows or fewer) gives no analogue.
C16_NoLookAhead ==
    Analyzed =>
        /\ \A j \in 1..Len(Analogues) :
              /\ Analogues[j].row >= 60
              /\ Analogues[j].row < panel.rows - 25
              /\ Analogues[j].date = panel.start + Analogues[j].row
              /\ panel.rows = 300 => Analogues[j].row \in 60..274
        /\ panel.rows <= 85 => Analogues = <<>>

C16_Witness ==
    /\ Analyzed
    /\ \E j \in 1..Len(Analogues) : Analogues[j].row = panel.rows - 26
    /\ \E j \in 1..Len(Analogues) : Analogues[j].row = 60

\* C17: the list returned has at most top_n (10) entries, each of
\* similarity at least 0.7, in non-increasing order of similarity, at most
\* one per month; the entry of a month has the highest similarity of that
\* month's candidates, and no month left out has a candidate more similar
\* than an entry returned.
C17_TopAnaloguesPerMonth ==
    Analyzed =>
        LET cs == AllCandidates
            n == Len(Analogues)
        IN /\ n <= DefaultTopN
           /\ \A j \in 1..n : Analogues[j].similarity >= 700
           /\ \A j \in 1..(n - 1) :
                 Analogues[j].similarity >= Analogues[j + 1].similarity
           /\ \A j, k \in 1..n :
                 j # k => MonthOf(Analogues[j].date) # MonthOf(Analogues[k].date)
           /\ \A j \in 1..n : \E k \in 1..Len(cs) : cs[k] = Analogues[j]
           /\ \A j \in 1..n : \A k \in 1..Len(cs) :
                 MonthOf(cs[k].date) = MonthOf(Analogues[j].date)
                    => cs[k].similarity <= Analogues[j].similarity
           /\ \A k \in 1..Len(cs) :
                 MonthOf(cs[k].date) \notin AnalogueMonths
                    => /\ n = DefaultTopN
                       /\ \A j \in 1..n : cs[k].similarity <= Analogues[j].similarity

C17_Witness ==
    /\ Analyzed
    /\ Len(Analogues) = DefaultTopN
    /\ Analogues[1].similarity > Analogues[DefaultTopN].similarity
    /\ LET cs == AllCandidates
           months == AnalogueMonths
       IN /\ \E k \in 1..Len(cs) : MonthOf(cs[k].date) \notin months
          /\ \E k \in 1..Len(cs) :
                /\ MonthOf(cs[k].date) \in months
                /\ \A j \in 1..Len(Analogues) : Analogues[j] # cs[k]

\* the panel truncated to end at row i
TruncatedCols(i) == [c \in DOMAIN panel.cols |-> SubSeq(panel.cols[c], 1, i + 1)]

\* C18: for every historical row i the search considers, the z-score vector
\* built for row i is the one the current-date computation gives on the
\* panel truncated to end at row i: the same indicators, the same window
\* and minimum sample, the same treatment of missing values and of a zero
\* standard deviation.
C18_SameCausalNormalization ==
    (Analyzed /\ Len(profile_indicators(panel.cols)) >= MinProfileIndicators) =>
        LET inds == profile_indicators(panel.cols)
        IN \A i \in rows_considered(panel) :
              /\ row_valid(panel.cols, inds, i) <=>
                     profile_indicators(TruncatedCols(i)) = inds
              /\ row_valid(panel.cols, inds, i) /\ profile_indicators(TruncatedCols(i)) = inds
                    => hist_vec(panel.cols, inds, i) = current_vec(TruncatedCols(i), inds)

NetLiquidityObs ==
    IF "net_liquidity" \in DOMAIN panel.cols THEN DropNa(panel.cols["net_liquidity"])
    ELSE <<>>
CurrentRegime == regime_of_score(composite_of(score))
\* the 5-day transitions out of the current regime seen in the history
TransitionsFrom(f) == transition_count(history_regimes(NetLiquidityObs), CurrentRegime, f)
TransitionsSeen == TransitionsFrom("bear") + TransitionsFrom("neutral") + TransitionsFrom("bull")
HistoryInsufficient ==
    \/ "net_liquidity" \notin DOMAIN panel.cols
    \/ Len(NetLiquidityObs) < 100
    \/ TransitionsSeen = 0
Better(r) == IF r = "bear" THEN {"neutral", "bull"} ELSE IF r = "neutral" THEN {"bull"} ELSE {}
Worse(r) == IF r = "bull" THEN {"neutral", "bear"} ELSE IF r = "neutral" THEN {"bear"} ELSE {}
\* the empirical frequency (thousandths) of moving from the current regime
\* into a set of regimes
Frequency(rs) ==
    RoundDiv(1000 * SumSeq([k \in 1..3 |->
                IF regime_order[k] \in rs THEN TransitionsFrom(regime_order[k]) ELSE 0]),
             TransitionsSeen)

\* C19: when the history is insufficient (net_liquidity absent, fewer than
\* 100 observations, or no transition out of the current regime seen) the
\* outlook is exactly stay 0.6, improve 0.2, worsen 0.2; otherwise it is the
\* empirical frequencies of the current regime's row.
C19_TransitionFallback ==
    Analyzed =>
        LET o == forward.regime_outlook
        IN IF HistoryInsufficient
           THEN o.stay_prob = 600 /\ o.improve_prob = 200 /\ o.worsen_prob = 200
           ELSE /\ o.stay_prob = Frequency({CurrentRegime})
                /\ o.improve_prob = Frequency(Better(CurrentRegime))
                /\ o.worsen_prob = Frequency(Worse(CurrentRegime))

\* the bias the thresholds 70/55/45/30 assign to a score in tenths
BiasOfReported(t) ==
    IF t >= 700 THEN "bullish" ELSE IF t >= 550 THEN "mild_bull"
    ELSE IF t >= 450 THEN "neutral" ELSE IF t >= 300 THEN "mild_bear"
    ELSE "bearish"

\* 0.40 * currentScore + 0.30 * momentumScore + 0.30 * historicalScore,
\* clamped to [0,100] and rounded to tenths, from the scorer's result, the
\* share of improving indicators of the trend summary and the medians of
\* the forward return statistics
ExpectedForwardScore ==
    LET trends == forward.trend_summary
        improving == Cardinality({i \in DOMAIN trends : trends[i].is_improving})
        n == IF DOMAIN trends = {} THEN 1 ELSE Cardinality(DOMAIN trends)
        hist == hist_score_of(forward.forward_return_stats.spx_median_20d,
                              forward.forward_return_stats.btc_median_20d)
        raw == (composite_of(score) * 4000 * n + improving * 3000000 + hist * 30 * n)
                  \div (100 * n)
    IN (Max2(0, Min2(100000, raw)) + 50) \div 100

\* C20 (as claimed): the forward score is the clamped blend and the bias is
\* the one the thresholds 70/55/45/30 assign to the returned score.
C20_BiasOfReportedScore ==
    Analyzed =>
        /\ forward.forward_signal.score = ExpectedForwardScore
        /\ forward.forward_signal.bias = BiasOfReported(forward.forward_signal.score)

\* C20 (amended): the forward score is the clamped blend, and the bias is
\* the one the thresholds assign to the score before it is rounded to one
\* decimal: the bias of the returned score, or, when the returned score is
\* exactly 70, 55, 45 or 30, possibly the bias just below it.
C20_BiasOfUnroundedScore ==
    Analyzed =>
        LET t == forward.forward_signal.score
        IN /\ t = ExpectedForwardScore
           /\ \/ forward.forward_signal.bias = BiasOfReported(t)
              \/ /\ t \in {700, 550, 450, 300}
                 /\ forward.forward_signal.bias = BiasOfReported(t - 1)

C20_Witness ==
    /\ Analyzed
    /\ forward.forward_signal.score \in {700, 550, 450, 300}
    /\ forward.forward_signal.bias = BiasOfReported(forward.forward_signal.score - 1)
    /\ forward.trend_summary # EmptyMap

----------------------------------------------------------------------------
(* Specification of the signal engine: a panel of 0 to 260 rows whose      *)
(* columns are any subset of three tracked indicators (one where higher is *)
(* tighter, one price-like where lower is tighter, one with no direction)  *)
(* and possibly a column that is not tracked; compute is called on it, and *)
(* may be called again.                                                    *)

SignalLengths == {0, 19, 20, 59, 60, 75, 260}
SignalChoice == {"vix", "spx", "us2y", "on_rrp"}

\* row i of wave w: a triangle wave with ties, a constant, a constant that
\* steps up at row 30, a rising line
SignalValue(w, i) ==
    CASE w = 0 -> 100 + Triangle(14, i)
      [] w = 1 -> 100
      [] w = 2 -> IF i < 30 THEN 100 ELSE 104
      [] OTHER -> 100 + i \div 2

\* the rows of gap pattern g that hold no observation: none, every seventh
\* row, the last row, all but every fourth row
SignalMissing(g, i, n) ==
    CASE g = 0 -> FALSE
      [] g = 1 -> i % 7 = 3
      [] g = 2 -> i = n - 1
      [] OTHER -> i % 4 # 0

SignalColumn(w, g, n) ==
    [j \in 1..n |-> IF SignalMissing(g, j - 1, n) THEN NaN
                    ELSE Some(SignalValue(w, j - 1))]

NumberOf(c) == CASE c = "vix" -> 0 [] c = "spx" -> 1 [] c = "us2y" -> 2 [] OTHER -> 3

SignalPanel(n, present, w, g) ==
    [rows |-> n,
     cols |-> [c \in present |-> SignalColumn((w + NumberOf(c)) % 4, g, n)]]

InitSignals ==
    /\ \E n \in SignalLengths, w \in 0..3, g \in 0..3 :
       \E present \in SUBSET SignalChoice :
          /\ n > 75 => Cardinality(present) = 1 /\ g <= 1
          /\ panel = SignalPanel(n, present, w, g)
    /\ signal_panel = EmptyMap
    /\ thresholds = EmptyMap
    /\ data_quality = <<>>
    /\ judgment = NoJudgment
    /\ score = NoScore
    /\ forward = NoForward
    /\ calls = NoCalls
    /\ pc = "ready"

NextSignals == ComputeSignals

SpecSignals == InitSignals /\ [][NextSignals]_vars

----------------------------------------------------------------------------
(* Properties of the signal engine (specification SpecSignals)             *)

Computed == pc = "signals"
Tracked == {SIGNAL_INDICATORS[i] : i \in 1..Len(SIGNAL_INDICATORS)}
TrackedPresent == Tracked \cap DOMAIN panel.cols

\* the rows of the trailing window of `size` rows ending at row t that hold
\* an observation
ObservedRows(series, t, size) ==
    {i \in Max2(1, t - size + 1)..t : IsSome(series[i])}

\* the number of observed rows of the window below / equal to the value at t
Below(series, t, size) ==
    Cardinality({i \in ObservedRows(series, t, size) :
                    Val(series[i]) < Val(series[t])})
Equal(series, t, size) ==
    Cardinality({i \in ObservedRows(series, t, size) :
                    Val(series[i]) = Val(series[t])})

\* C21 (as claimed): the percentile at row t is the fraction of the values
\* of the trailing 252-row window, row t included, that are strictly less
\* than the value at t; it has no value when the window holds fewer than 60
\* observations.
C21_PercentileStrictlyLess ==
    Computed =>
        \A c \in TrackedPresent : \A t \in 1..panel.rows :
            LET series == panel.cols[c]
                n == Cardinality(ObservedRows(series, t, PercentileWindow))
                v == signal_panel[<<c, "pctl">>][t]
            IN IF n < PercentileMinPeriods THEN v = NaN
               ELSE IsSome(series[t]) =>
                       v = Some((Below(series, t, PercentileWindow) * 10000) \div n)

\* C21 (amended): the percentile at row t is the average rank of the value
\* at t among the observations of the trailing 252-row window, row t
\* included, divided by their number: (less + (equal + 1) / 2) / n, where
\* equal counts the value at t itself; it depends only on rows <= t, and it
\* has no value when the window holds fewer than 60 observations or row t
\* holds none.
C21_PercentileAverageRank ==
    Computed =>
        \A c \in TrackedPresent : \A t \in 1..panel.rows :
            LET series == panel.cols[c]
                rows == ObservedRows(series, t, PercentileWindow)
                n == Cardinality(rows)
                v == signal_panel[<<c, "pctl">>][t]
            IN IF n < PercentileMinPeriods \/ ~IsSome(series[t]) THEN v = NaN
               ELSE LET less == Below(series, t, PercentileWindow)
                        equal == Equal(series, t, PercentileWindow)
                        first == less + 1
                        last == less + equal
                    IN v = Some(((first + last) * 10000) \div (2 * n))

\* a window cut at 252 rows, a tie and a window with too few observations
C21_Witness ==
    /\ Computed
    /\ panel.rows > PercentileWindow
    /\ \E c \in TrackedPresent :
          LET series == panel.cols[c]
              t == panel.rows
          IN /\ IsSome(series[t])
             /\ Equal(series, t, PercentileWindow) > 1
             /\ Below(series, t, PercentileWindow) # Below(series, t, panel.rows)
             /\ signal_panel[<<c, "pctl">>][t] # NaN
             /\ signal_panel[<<c, "pctl">>][PercentileMinPeriods - 1] = NaN

\* sum of f over a set of rows
RECURSIVE SumOver(_, _)
SumOver(f, rows) ==
    IF rows = {} THEN 0
    ELSE LET i == CHOOSE i \in rows : TRUE IN f[i] + SumOver(f, rows \ {i})

\* The trailing z-score window at row t: its observed rows, their number,
\* the values less their floor (100 x base keeps the sums small), their
\* sum and sum of squares
ZRows(series, t) == ObservedRows(series, t, ZscoreWindow)
ZBase(series, t) == Val(series[CHOOSE i \in ZRows(series, t) : TRUE])
ZSum(series, t) ==
    SumOver([i \in 1..t |-> IF IsSome(series[i]) THEN Val(series[i]) - ZBase(series, t) ELSE 0],
            ZRows(series, t))
ZSumSq(series, t) ==
    SumOver([i \in 1..t |-> IF IsSome(series[i])
                            THEN (Val(series[i]) - ZBase(series, t)) * (Val(series[i]) - ZBase(series, t))
                            ELSE 0],
            ZRows(series, t))
\* the rolling standard deviation is 0: every observation of the window is
\* the same value
ZStdIsZero(series, t) ==
    \A i, j \in ZRows(series, t) : series[i] = series[j]

\* v (hundredths) is (level[t] - rolling mean) / rolling std up to the
\* rounding of the fixed-point arithmetic: with n observations of sum S and
\* sum of squares Q, the deviation is (n x - S) / n and the sample variance
\* (n Q - S^2) / (n (n - 1)); v * std = 100 * deviation, with an error of
\* one unit in each of v, std (hundredths) and the deviation (hundredths).
IsZscoreOf(v, series, t) ==
    LET n == Cardinality(ZRows(series, t))
        S == ZSum(series, t)
        Q == ZSumSq(series, t)
        dev100 == (100 * (n * (Val(series[t]) - ZBase(series, t)) - S)) \div n
        std100 == ISqrt(10 * ((1000 * (n * Q - S * S)) \div (n * (n - 1))))
        gap == v * std100 - 100 * dev100
    IN /\ v \in -800..800
       /\ (IF gap < 0 THEN -gap ELSE gap) <= std100 + 2 * (IF v < 0 THEN -v ELSE v) + 100

\* C22: at every row t the z-score is (level[t] - rolling mean) / rolling
\* std over the trailing 60-row window; it has no value, and compute does
\* not raise, when the window holds fewer than 20 observations or when the
\* rolling standard deviation is 0 (or when row t holds no observation);
\* a value is never an infinity.
C22_ZscoreOrNoValue ==
    (pc \in {"signals", "raised"}) =>
        /\ pc = "raised" => TrackedPresent = {}
        /\ Computed =>
             \A c \in TrackedPresent : \A t \in 1..panel.rows :
                LET series == panel.cols[c]
                    v == signal_panel[<<c, "zscore">>][t]
                IN IF \/ Cardinality(ZRows(series, t)) < ZscoreMinPeriods
                      \/ ZStdIsZero(series, t)
                      \/ ~IsSome(series[t])
                   THEN v = NaN
                   ELSE IsSome(v) /\ IsZscoreOf(Val(v), series, t)

\* a table with a z-score above 1, a row whose window is constant and a row
\* whose window is too short although the row is observed
C22_Witness ==
    /\ Computed
    /\ \E c \in TrackedPresent :
          LET series == panel.cols[c]
              z == signal_panel[<<c, "zscore">>]
          IN /\ \E t \in 1..panel.rows : IsSome(z[t]) /\ Val(z[t]) > 100
             /\ \E t \in 1..panel.rows :
                   /\ Cardinality(ZRows(series, t)) >= ZscoreMinPeriods
                   /\ IsSome(series[t])
                   /\ ZStdIsZero(series, t)
                   /\ z[t] = NaN
             /\ \E t \in 1..panel.rows :
                   /\ Cardinality(ZRows(series, t)) = ZscoreMinPeriods - 1
                   /\ IsSome(series[t])
                   /\ z[t] = NaN

\* the label of a z-score (hundredths) for a 'higher = tighter' indicator
TighterLabel(z) ==
    IF z > 150 THEN "STRESS"
    ELSE IF z > 50 /\ z <= 150 THEN "TIGHT"
    ELSE IF z < -50 THEN "EASING" ELSE "NEUTRAL"

\* the label of a z-score by the magnitude-only rule
MagnitudeLabel(z) ==
    LET a == IF z < 0 THEN -z ELSE z
    IN IF a > 150 THEN "STRESS" ELSE IF a > 50 /\ a <= 150 THEN "TIGHT" ELSE "NEUTRAL"

\* the label the rules give an indicator for a cell of its z-score column
RuleLabel(c, z) ==
    IF z = NaN THEN "NEUTRAL"
    ELSE IF c \in {"sofr", "hy_oas", "vix", "move_proxy", "dxy"} THEN TighterLabel(Val(z))
    ELSE IF c \in {"net_liquidity", "usdjpy", "carry_spread_bps", "spx", "btc"}
    THEN TighterLabel(-Val(z))
    ELSE MagnitudeLabel(Val(z))

\* z-scores at, next to and between the thresholds
LabelProbes ==
    {Some(z) : z \in {-300, -151, -150, -149, -100, -51, -50, -49, 0,
                      49, 50, 51, 100, 149, 150, 151, 300}} \cup {NaN}

LabelsOf(c) ==
    {Val(signal_panel[<<c, "signal">>][t]) : t \in 1..panel.rows}

\* C23: the label is a total function of the indicator's direction class
\* and the z-score: STRESS above 1.5, TIGHT in (0.5, 1.5], EASING below
\* -0.5, else NEUTRAL for 'higher = tighter'; the same of -z for 'higher =
\* looser'; by magnitude, and never EASING, for any other indicator;
\* NEUTRAL for an undefined z-score.  It holds of every cell of the table
\* and of every indicator at and around the thresholds.
C23_LabelOfZscore ==
    Computed =>
        /\ \A c \in TrackedPresent : \A t \in 1..panel.rows :
              signal_panel[<<c, "signal">>][t]
                  = Some(RuleLabel(c, signal_panel[<<c, "zscore">>][t]))
        /\ \A c \in Tracked : \A z \in LabelProbes :
              /\ label_signal(z, c) = RuleLabel(c, z)
              /\ c \notin tightening_up \cup tightening_down
                    => label_signal(z, c) # "EASING"
        /\ \A up \in tightening_up : \A down \in tightening_down :
              \A z \in LabelProbes \ {NaN} :
                 label_signal(z, down) = label_signal(Some(-Val(z)), up)

\* a cell with its z-score in a range and its label in a set
HasCell(c, lo, hi, labels) ==
    /\ c \in TrackedPresent
    /\ \E t \in 1..panel.rows :
          LET z == signal_panel[<<c, "zscore">>][t]
          IN /\ IsSome(z) /\ Val(z) >= lo /\ Val(z) <= hi
             /\ Val(signal_panel[<<c, "signal">>][t]) \in labels

\* a table in which a high z-score is STRESS for a 'higher = tighter'
\* indicator and EASING for a 'higher = looser' one, a low z-score is
\* TIGHT or STRESS for an indicator of no class, and a cell without
\* z-score is NEUTRAL
C23_Witness ==
    /\ Computed
    /\ HasCell("vix", 151, 800, {"STRESS"})
    /\ HasCell("spx", 51, 800, {"EASING"})
    /\ HasCell("us2y", -800, -51, {"TIGHT", "STRESS"})
    /\ signal_panel[<<"vix", "zscore">>][1] = NaN
    /\ signal_panel[<<"vix", "signal">>][1] = Some("NEUTRAL")

\* the metrics of an indicator's columns: the percentage changes only for
\* spx, btc, usdjpy and dxy
MetricsOf(c) ==
    {"level", "chg_1d", "chg_5d", "chg_20d", "zscore", "pctl", "signal"}
    \cup (IF c \in {"spx", "btc", "usdjpy", "dxy"}
          THEN {"pct_1d", "pct_5d", "pct_20d"} ELSE {})

\* C24: for any subset of the tracked indicators present as panel columns,
\* the empty subset included, compute returns without raising a table that
\* has the panel's rows and columns only for the indicators present; absent
\* indicators produce no column and no error.
C24_AnySubsetReturns ==
    (pc \in {"signals", "raised"}) =>
        /\ pc = "signals"
        /\ DOMAIN signal_panel = {<<c, m>> : c \in TrackedPresent, m \in Metrics}
                                   \cap {k \in Tracked \X Metrics : k[2] \in MetricsOf(k[1])}
        /\ \A k \in DOMAIN signal_panel : Len(signal_panel[k]) = panel.rows

----------------------------------------------------------------------------
(* Specification of concurrent evaluations: MaxCallers callers share one   *)
(* JudgmentEngine; each calls evaluate with a panel, a signal table and a  *)
(* quality report of its own, and the calls interleave between the         *)
(* assignment to self.data_quality (line 37) and the rest of the call.     *)

MaxCallers == 2
Callers == 1..MaxCallers

\* the snapshots a caller may pass: no rows; net liquidity weakening with
\* sofr and hy_oas stressed; nothing stressed
CallInputs ==
    { [panel |-> [rows |-> 0, cols |-> EmptyMap], signal_panel |-> EmptyMap],
      [panel |-> [rows |-> MaxRows,
                  cols |-> P1("net_liquidity", Shape(MaxRows, 0, 6000))
                           @@ P1("sofr", Shape(MaxRows, 0, 530))
                           @@ P1("hy_oas", Shape(MaxRows, 0, 340))],
       signal_panel |-> S1("net_liquidity", "chg_5d", Shape(MaxRows, 0, -100))
                        @@ S1("sofr", "chg_5d", Shape(MaxRows, 0, 6))
                        @@ S1("hy_oas", "chg_5d", Shape(MaxRows, 0, 16))],
      [panel |-> [rows |-> MaxRows,
                  cols |-> P1("net_liquidity", Shape(MaxRows, 0, 6000))
                           @@ P1("sofr", Shape(MaxRows, 0, 530))],
       signal_panel |-> S1("net_liquidity", "chg_5d", Shape(MaxRows, 0, -50))
                        @@ S1("sofr", "chg_5d", Shape(MaxRows, 0, 5))] }

\* the quality reports a caller may pass: none, a stale one, a fresh one
CallReports ==
    { <<>>,
      <<Entry("hy_oas", TRUE, Some("missing"), None)>>,
      <<Entry("sofr", TRUE, Some("ok"), Some(0))>> }

Idle == [at |-> "idle"]

InitConcurrent ==
    /\ panel = [rows |-> 0, cols |-> EmptyMap]
    /\ signal_panel = EmptyMap
    /\ thresholds \in {EmptyMap, "min_confirmations" :> 3}
    /\ data_quality = <<>>
    /\ judgment = NoJudgment
    /\ score = NoScore
    /\ forward = NoForward
    /\ calls = [c \in Callers |-> Idle]
    /\ pc = "ready"

\* caller c enters evaluate: self.data_quality = data_quality (line 37)
Enter(c) ==
    /\ calls[c].at \in {"idle", "returned"}
    /\ \E in \in CallInputs, dq \in CallReports :
          /\ calls' = [calls EXCEPT ![c] =
                          [at |-> "entered", panel |-> in.panel,
                           signal_panel |-> in.signal_panel, data_quality |-> dq]]
          /\ data_quality' = dq
    /\ UNCHANGED <<panel, signal_panel, thresholds, judgment, score, forward, pc>>

\* caller c runs the rest of evaluate (lines 38-69) and returns
Return(c) ==
    /\ calls[c].at = "entered"
    /\ LET call == calls[c]
           result == evaluate(call.panel, call.signal_panel,
                              staleness_argument(call.data_quality, data_quality),
                              thresholds)
       IN /\ calls' = [calls EXCEPT ![c] =
                          [at |-> "returned", panel |-> call.panel,
                           signal_panel |-> call.signal_panel,
                           data_quality |-> call.data_quality,
                           result |-> result]]
          /\ judgment' = result
    /\ UNCHANGED <<panel, signal_panel, thresholds, data_quality, score, forward, pc>>

NextConcurrent == \E c \in Callers : Enter(c) \/ Return(c)

SpecConcurrent == InitConcurrent /\ [][NextConcurrent]_vars

----------------------------------------------------------------------------
(* Properties of concurrent evaluations (specification SpecConcurrent)     *)

\* C26: every call returns the judgment the same call returns on a fresh
\* engine in isolation, whatever other calls ran before it or between its
\* entry and its return, and no call modifies its panel or signal table.
C26_CallsAreIndependent ==
    [][\A c \in Callers :
          /\ calls'[c].at = "returned" =>
                calls'[c].result = evaluate(calls'[c].panel, calls'[c].signal_panel,
                                            calls'[c].data_quality, thresholds)
          /\ (calls[c].at = "entered" /\ calls'[c].at # "entered") =>
                /\ calls'[c].at = "returned"
                /\ calls'[c].panel = calls[c].panel
                /\ calls'[c].signal_panel = calls[c].signal_panel
                /\ calls'[c].data_quality = calls[c].data_quality]_vars

\* a call has returned although another caller entered with another
\* report after it did: the engine holds the other report, and the
\* judgments of the two reports differ
C26_Witness ==
    \E c, d \in Callers :
       /\ c # d
       /\ calls[c].at = "returned"
       /\ calls[d].at = "entered"
       /\ data_quality = calls[d].data_quality
       /\ data_quality # calls[c].data_quality
       /\ calls[c].result # evaluate(calls[c].panel, calls[c].signal_panel,
                                     data_quality, thresholds)
       /\ judgment = calls[c].result

----------------------------------------------------------------------------
(* Further properties of the forward analyzer (specification SpecForward)  *)

\* the min_distance_days parameter of _find_analogues
MinDistanceDays == 20

\* C27: any two analogues returned are at least min_distance_days (20)
\* trading days apart in the panel, also when they fall on either side of
\* a month boundary.
C27_AnalogueSpacing ==
    Analyzed =>
        \A j, k \in 1..Len(Analogues) :
            j # k => Abs(Analogues[j].row - Analogues[k].row) >= MinDistanceDays

----------------------------------------------------------------------------
(* Specification of the composite forward signal: step 4 of analyze, from  *)
(* the trend summary and the forward return statistics steps 1 and 2 left  *)
(* in the result.  The medians are those of panels with both risk assets,  *)
(* with one of them or with none; the trend summary has 0 to 3 entries.    *)

\* median 20-day forward returns, hundredths of a percent
MedianChoice == {None, Some(-500), Some(-250), Some(0), Some(250), Some(500)}

Trend(improving) == [is_improving |-> improving]
TrendChoice ==
    { EmptyMap,
      ("vix" :> Trend(TRUE)) @@ ("hy_oas" :> Trend(FALSE)),
      ("vix" :> Trend(TRUE)) @@ ("hy_oas" :> Trend(TRUE)) @@ ("sofr" :> Trend(TRUE)) }

InitForwardSignal ==
    /\ panel = [rows |-> 0, cols |-> EmptyMap]
    /\ signal_panel = EmptyMap
    /\ thresholds = EmptyMap
    /\ data_quality = <<>>
    /\ judgment = NoJudgment
    /\ score \in ScoreData
    /\ \E spx \in MedianChoice, btc \in MedianChoice, trends \in TrendChoice :
          forward = [status |-> "returns",
                     trend_summary |-> trends,
                     forward_return_stats |->
                        [spx_median_20d |-> spx, btc_median_20d |-> btc]]
    /\ calls = NoCalls
    /\ pc = "returns"

\* result['forward_signal'] = self._composite_forward_signal(...)
CompositeForwardSignal ==
    /\ pc = "returns"
    /\ forward' = [status |-> "ok",
                   trend_summary |-> forward.trend_summary,
                   forward_return_stats |-> forward.forward_return_stats,
                   forward_signal |->
                      composite_forward_signal(forward.trend_summary,
                                               forward.forward_return_stats, score)]
    /\ pc' = "signal"
    /\ UNCHANGED <<panel, signal_panel, thresholds, data_quality, judgment, score,
                   calls>>

NextForwardSignal == CompositeForwardSignal

SpecForwardSignal == InitForwardSignal /\ [][NextForwardSignal]_vars

----------------------------------------------------------------------------
(* Properties of the composite forward signal (SpecForwardSignal)          *)

\* the historical score (tenths) the documented normalization gives a
\* median return r (hundredths of a percent): +5% is 100, -5% is 0, 0% is 50
Remap(r) == Max2(0, Min2(1000, 500 + r))

\* C28: a median 20-day forward return of +5% maps to a historical score of
\* 100, -5% to 0 and 0% to 50, when both medians are available (and equal)
\* and when only the SPX median is; a BTC median available alone is used in
\* the same way.
C28_HistoricalScoreNormalization ==
    (pc = "signal") =>
        LET spx == forward.forward_return_stats.spx_median_20d
            btc == forward.forward_return_stats.btc_median_20d
            h == forward.forward_signal.components.historical_score
            marks == {Some(-500), Some(0), Some(500)}
        IN /\ (spx \in marks /\ btc = spx) => h = Remap(Val(spx))
           /\ (spx \in marks /\ btc = None) => h = Remap(Val(spx))
           /\ (btc \in marks /\ spx = None) => h = Remap(Val(btc))

----------------------------------------------------------------------------
(* Properties of the regime outlook (specification SpecForward)            *)

Outlook == forward.regime_outlook
\* the outlook is in [0,1] in each part and sums to 1 up to the rounding
\* of its three parts to 3 decimals
IsDistribution(o) ==
    /\ o.stay_prob \in 0..1000
    /\ o.improve_prob \in 0..1000
    /\ o.worsen_prob \in 0..1000
    /\ Abs(o.stay_prob + o.improve_prob + o.worsen_prob - 1000) <= 1
\* the branch that returned: the flat prior reports no current_regime_key
FlatPriorReturned == "current_regime_key" \notin DOMAIN Outlook

\* C29 (as claimed): in every branch the outlook is a probability
\* distribution, worsen_prob is 0 when the current regime is bear and
\* improve_prob is 0 when it is bull.
C29_OutlookInEveryBranch ==
    Analyzed =>
        /\ IsDistribution(Outlook)
        /\ CurrentRegime = "bear" => Outlook.worsen_prob = 0
        /\ CurrentRegime = "bull" => Outlook.improve_prob = 0

\* C29 (amended): in every branch the outlook is a probability
\* distribution; in the unseen-regime and empirical branches worsen_prob
\* is 0 when the current regime is bear and improve_prob is 0 when it is
\* bull; the flat prior is 0.6/0.2/0.2 whatever the current regime.
C29_OutlookIsDistribution ==
    Analyzed =>
        /\ IsDistribution(Outlook)
        /\ IF FlatPriorReturned
           THEN /\ Outlook.stay_prob = 600
                /\ Outlook.improve_prob = 200
                /\ Outlook.worsen_prob = 200
           ELSE /\ Outlook.current_regime_key = CurrentRegime
                /\ CurrentRegime = "bear" => Outlook.worsen_prob = 0
                /\ CurrentRegime = "bull" => Outlook.improve_prob = 0

\* an empirical row of a bear regime that both stays and improves
C29_Witness ==
    /\ Analyzed
    /\ ~FlatPriorReturned
    /\ CurrentRegime = "bear"
    /\ TransitionsSeen > 0
    /\ Outlook.stay_prob > 0
    /\ Outlook.improve_prob > 0
    /\ Outlook.worsen_prob = 0

----------------------------------------------------------------------------
(* The rows the judgment is based on (specification Spec)                  *)

\* the indicator has no observation at the panel's last row
MissingAtLastRow(c) ==
    c \notin DOMAIN panel.cols \/ panel.cols[c][panel.rows] = NaN

\* the last row of a series that holds a value (0 when none does), and the
\* value a column of a frame holds there
LastObservedRow(series) ==
    IF \E i \in 1..Len(series) : IsSome(series[i])
    THEN CHOOSE i \in 1..Len(series) :
            IsSome(series[i]) /\ \A j \in (i + 1)..Len(series) : series[j] = NaN
    ELSE 0
LastObserved(frame, key) ==
    IF key \notin DOMAIN frame \/ LastObservedRow(frame[key]) = 0 THEN None
    ELSE frame[key][LastObservedRow(frame[key])]

Details(d) == judgment.dimension_details[d]
RateVolColumn == IF "move_proxy" \in DOMAIN panel.cols THEN "move_proxy" ELSE "vix"
Exceeds(cell, threshold) == cell # None /\ Val(cell) > threshold
Undercuts(cell, threshold) == cell # None /\ Val(cell) < threshold

\* C30 (as claimed): an indicator that has no observation at the panel's
\* last row never makes its dimension stressed or weakening.
C30_BasedOnLastRow ==
    (Judged /\ NonEmptyPanel) =>
        /\ MissingAtLastRow("net_liquidity") => ~judgment.net_liquidity_weakening
        /\ MissingAtLastRow("sofr") => "sofr" \notin StressedDims
        /\ MissingAtLastRow(RateVolColumn) => "move_proxy" \notin StressedDims
        /\ (MissingAtLastRow("usdjpy") /\ MissingAtLastRow("carry_spread_bps"))
              => "carry_chain" \notin StressedDims
        /\ MissingAtLastRow("hy_oas") => "hy_oas" \notin StressedDims
        /\ MissingAtLastRow("spx") => ~judgment.risk_asset_confirming

\* C30 (amended): every dimension is based on the last observed level and
\* the last defined 5-day change (z-score, percentage change) of its
\* indicators, at the last row or at the latest earlier row that holds
\* one: net liquidity weakens iff it has an observation and its last
\* 5-day change is below the threshold; sofr and hy_oas are stressed iff
\* they have an observation and their last 5-day change is above theirs;
\* rate volatility iff its last level is above the threshold or its last
\* z-score above 1; the carry chain iff the last 5-day change of a carry
\* column of the panel is below its threshold; risk assets confirm iff spx
\* is a column and its last 5-day return is below the threshold.
C30_BasedOnLastObserved ==
    (Judged /\ NonEmptyPanel) =>
        /\ judgment.net_liquidity_weakening <=>
              /\ LastObserved(panel.cols, "net_liquidity") # None
              /\ LET c == LastObserved(signal_panel, <<"net_liquidity", "chg_5d">>)
                 IN (IF c = None THEN 0 ELSE Val(c)) < NetLiqThreshold
        /\ "sofr" \in StressedDims <=>
              /\ LastObserved(panel.cols, "sofr") # None
              /\ Exceeds(LastObserved(signal_panel, <<"sofr", "chg_5d">>),
                         Get(thresholds, "sofr_stress_threshold_5d", 5))
        /\ "hy_oas" \in StressedDims <=>
              /\ LastObserved(panel.cols, "hy_oas") # None
              /\ Exceeds(LastObserved(signal_panel, <<"hy_oas", "chg_5d">>),
                         Get(thresholds, "hy_oas_widen_threshold_5d", 15))
        /\ "move_proxy" \in StressedDims <=>
              /\ LastObserved(panel.cols, RateVolColumn) # None
              /\ \/ Exceeds(LastObserved(panel.cols, RateVolColumn),
                            Get(thresholds, "vix_stress_threshold", 25))
                 \/ Exceeds(LastObserved(signal_panel, <<RateVolColumn, "zscore">>), 100)
        /\ "carry_chain" \in StressedDims <=>
              \/ /\ "usdjpy" \in DOMAIN panel.cols
                 /\ Undercuts(LastObserved(signal_panel, <<"usdjpy", "chg_5d">>),
                              Get(thresholds, "usdjpy_stress_threshold_5d", -20))
              \/ /\ "carry_spread_bps" \in DOMAIN panel.cols
                 /\ Undercuts(LastObserved(signal_panel, <<"carry_spread_bps", "chg_5d">>),
                              Get(thresholds, "carry_spread_narrow_threshold_5d", -10))
        /\ judgment.risk_asset_confirming <=>
              /\ "spx" \in DOMAIN panel.cols
              /\ Undercuts(LastObserved(signal_panel, <<"spx", "pct_5d">>),
                           Get(thresholds, "spx_weak_threshold_5d", -200))
        /\ Details("sofr").available =>
              Details("sofr").level = LastObserved(panel.cols, "sofr")

\* a judgment in which sofr is stressed and net liquidity weakening through
\* changes observed before the last row, where both have no observation
C30_Witness ==
    /\ Judged
    /\ NonEmptyPanel
    /\ "sofr" \in DOMAIN panel.cols
    /\ "net_liquidity" \in DOMAIN panel.cols
    /\ MissingAtLastRow("sofr")
    /\ MissingAtLastRow("net_liquidity")
    /\ "sofr" \in StressedDims
    /\ judgment.net_liquidity_weakening

====
